---------------------------- MODULE Spec2Model ----------------------------
(***************************************************************************)
(* The P compiler (PComp, its PL/0 ancestors PL0Comp and PL0CComp), the    *)
(* driver (p.cc) and the P machine, as one state machine.                  *)
(*                                                                         *)
(* The compiler is a single pass recursive descent parser.  Its state is   *)
(* the symbol table, the emitted code, the error count and the stack of    *)
(* productions that are waiting for a nested production to return (stk).   *)
(* Each action is one production reading its construct from the source:    *)
(* either freely (any construct of the production's input set, bounded by  *)
(* MaxProd) or from a source text chosen by Init (src).                    *)
(***************************************************************************)
EXTENDS Integers, Sequences, FiniteSets, TLC

VARIABLES
    phase,      \* driver position: "args", "compile", "load", "run", "exit";
                \* "crash" when the process has been killed
    argv,       \* the command line arguments
    source,     \* the number in Programs of the text in the input file, 0 with free
    cmdOk,      \* result of parseCommandline
    exitCode,   \* value returned by main (-1 until it returns)
    src,        \* scripted source text still to be read; <<>> with free = TRUE
    free,       \* TRUE: constructs are read freely, bounded by MaxProd
    nprod,      \* number of constructs read so far
    symtbl,     \* the symbol table, a multimap kept in insertion order
    code,       \* the emitted instructions; code[a+1] is the instruction at address a
    nErrors,    \* the compiler's error count
    stk,        \* productions waiting for a nested production, innermost last
    subs,       \* history: every subroutine declared so far
    calls,      \* history: every CALL emitted, with the subroutine it names
    stores,     \* history: every store emitted, with the type of its target
    lk,         \* history: identifier resolutions of the latest production
    bins,       \* history: every binary operator emitted
    ctls,       \* history: every statement compiled
    idxs,       \* history: every array index compiled
    blts,       \* history: every built-in function, not and new compiled
    sels,       \* history: every record selector compiled
    rngs,       \* history: every sub-range type built
    pc, fp, sp, \* machine registers
    stack,      \* machine data segment
    result,     \* machine result code, "none" before the machine is started
    ncycles,    \* machine cycles run so far
    cstk,       \* history: calls of the machine that have not returned yet
    heap        \* the machine's free store: its free list, the blocks allocated
                \* and the history of its latest operations

vars == <<phase, argv, source, cmdOk, exitCode, src, free, nprod, symtbl, code, nErrors,
          stk, subs, calls, stores, lk, bins, ctls, idxs, blts, sels, rngs, pc, fp, sp, stack, result,
          ncycles, cstk, heap>>

compVars == <<src, free, nprod, symtbl, code, nErrors, stk, subs, calls, stores, lk,
              bins, ctls, idxs, blts, sels, rngs>>
machVars == <<pc, fp, sp, stack, result, ncycles, cstk, heap>>

-----------------------------------------------------------------------------
(* Bounds of the model *)

\* constructs a freely read source may hold
MaxProd == 3
\* deepest block level of a freely read source
MaxLevel == 2
\* size of the machine's stack segment
StackSize == 100
\* machine cycles before a run is cut off
MaxCycles == 4000
\* size of the machine's free store segment
HeapSize == 3

-----------------------------------------------------------------------------
(* Datum, Frame, Instr *)

I(n) == [kind |-> "Integer", v |-> n]
R(n) == [kind |-> "Real", v |-> n]

FrameBase    == 0
FrameOldFp   == 1
FrameRetAddr == 2
FrameRetVal  == 3
FrameSize    == 4

Instr(o, l, d) == [op |-> o, level |-> l, addr |-> d]

\* the instruction at address a
At(c, a) == c[a + 1]

\* replace the address operand of the instruction at address a
Patch(c, a, n) == [c EXCEPT ![a + 1].addr = I(n)]

-----------------------------------------------------------------------------
(* Type descriptors *)

IntMax == 2147483647
IntMin == -IntMax - 1

maxRange == [min |-> IntMin, max |-> IntMax]

TDesc(k, sz, lo, hi) == [tclass |-> k, size |-> sz, range |-> [min |-> lo, max |-> hi]]

intDesc  == TDesc("Integer", 1, IntMin, IntMax)
realDesc == TDesc("Real", 1, 0, 0)
boolDesc == TDesc("Boolean", 1, 0, 1)
charDesc == TDesc("Character", 1, 0, 127)

newIntDesc(lo, hi) == TDesc("Integer", 1, lo, hi)

\* a TDescPtr that points to no descriptor
NullDesc == [tclass |-> "Null", size |-> 0, range |-> [min |-> 0, max |-> 0]]

newPointerDesc(b) ==
    [tclass |-> "Pointer", size |-> 1, range |-> [min |-> 0, max |-> 0], base |-> b]

\* span is the number of values of the index range r
newArrayDesc(span, r, index, b) ==
    [tclass |-> "Array", size |-> span * b.size, range |-> r, itype |-> index, base |-> b]

\* base() and itype() of a descriptor: a null pointer where it has none
baseOf(t)  == IF "base" \in DOMAIN t THEN t.base ELSE NullDesc
itypeOf(t) == IF "itype" \in DOMAIN t THEN t.itype ELSE NullDesc

\* newRcrdDesc(size, fields)
newRcrdDesc(sz, fields) ==
    [tclass |-> "Record", size |-> sz, range |-> [min |-> 0, max |-> 0], fields |-> fields]

\* fields() of a descriptor
fieldsOf(t) == IF "fields" \in DOMAIN t THEN t.fields ELSE <<>>

isOrdinal(t) == t.tclass \in {"Integer", "Boolean", "Character", "Enumeration"}

isAnInteger(t) == t.tclass = "Integer"
isAReal(t)     == t.tclass = "Real"

-----------------------------------------------------------------------------
(* Symbol table *)

makeConst(l, d, t) ==
    [kind |-> "Constant", level |-> l, value |-> d, type |-> t, params |-> <<>>]
makeVar(l, dx, t) ==
    [kind |-> "Variable", level |-> l, value |-> I(dx), type |-> t, params |-> <<>>]
makeType(l, t) ==
    [kind |-> "Type", level |-> l, value |-> I(0), type |-> t, params |-> <<>>]
makeSbr(k, l) ==
    [kind |-> k, level |-> l, value |-> I(0), type |-> intDesc, params |-> <<>>]

\* symtbl.insert({name, val}): a multimap insert, which never fails
\* (id is history: 0, or the number in subs of the subroutine the entry declares)
insert(tbl, name, val) == Append(tbl, [name |-> name, val |-> val, id |-> 0])

\* indices of the entries named name, in insertion order (equal_range)
equal_range(tbl, name) == {i \in 1..Len(tbl) : tbl[i].name = name}

\* is there an entry of that name at that level?
definedAt(tbl, name, l) == \E i \in equal_range(tbl, name) : tbl[i].val.level = l


\* lookup(id): the entry of that name with the greatest level, the first
\* inserted of several at that level; 0 stands for symtbl.end()
lookup(tbl, name) ==
    LET r == equal_range(tbl, name) IN
    IF r = {} THEN 0
    ELSE CHOOSE i \in r : \A j \in r :
            \/ tbl[j].val.level < tbl[i].val.level
            \/ (tbl[j].val.level = tbl[i].val.level /\ j >= i)

purgeDeeper(tbl, l) == SelectSeq(tbl, LAMBDA e : e.val.level <= l)

\* purge(level): erase every entry of that level
purge(tbl, l) == SelectSeq(tbl, LAMBDA e : e.val.level # l)

-----------------------------------------------------------------------------
(* What a production changes: the code, the error count and the history.   *)
(* The productions below take such a record and return the changed one.    *)

\* v named in F
With(v, F(_)) == F(v)

Ctx(c, n, ca, st, bi, ct, ix, bl, se, rn) ==
    [code |-> c, nErrors |-> n, calls |-> ca, stores |-> st, lk |-> {}, bins |-> bi,
     ctls |-> ct, idxs |-> ix, blts |-> bl, sels |-> se, rngs |-> rn]

\* error(msg): report and count
error(g) == [g EXCEPT !.nErrors = @ + 1]

\* n reports
RECURSIVE errors(_, _)
errors(g, n) == IF n = 0 THEN g ELSE errors(error(g), n - 1)

\* emit(op, level, addr): append; the new instruction's address is the old size
emit(g, o, l, d) == [g EXCEPT !.code = Append(@, Instr(o, l, d))]

size(g) == Len(g.code)

\* lookup as the productions call it: reports an undefined identifier
resolve(g, tbl, name, level) ==
    With(lookup(tbl, name), LAMBDA i :
    [g  |-> [g EXCEPT !.lk = @ \cup {[name |-> name, cur |-> level,
                         found |-> IF i = 0 THEN -1 ELSE tbl[i].val.level]},
                      !.nErrors = IF i = 0 THEN @ + 1 ELSE @],
     it |-> i])

\* nameDecl(level): the declared name; reports a name already declared at level
nameDecl(g, tbl, name, l) == IF definedAt(tbl, name, l) THEN error(g) ELSE g

\* emitVarRef(level, val): locals follow the frame, parameters precede it
emitVarRef(g, level, val) ==
    emit(g, "PUSHVAR", level - val.level,
         I(IF val.value.v >= 0 THEN val.value.v + FrameSize ELSE val.value.v))

-----------------------------------------------------------------------------
(* Expressions.  An expression of the source is given as its parse tree:   *)
(*   [k |-> "int", v]   [k |-> "real", v]   [k |-> "neg", e]               *)
(*   [k |-> "id", name, paren, args, sel]   [k |-> "bin", op, l, r]        *)
(*   [k |-> "not", e]   [k |-> "builtin", f, e]                            *)
(* where sel is the sequence of selectors that follow a variable's name:   *)
(*   [s |-> "^"],  [s |-> "[", e]  and  [s |-> ".", f]                     *)

Lit(n)          == [k |-> "int", v |-> n]
RLit(n)         == [k |-> "real", v |-> n]
Id(n)           == [k |-> "id", name |-> n, paren |-> FALSE, args |-> <<>>, sel |-> <<>>]
Fn(n, a)        == [k |-> "id", name |-> n, paren |-> TRUE, args |-> a, sel |-> <<>>]
Sel(n, s)       == [k |-> "id", name |-> n, paren |-> FALSE, args |-> <<>>, sel |-> s]
Caret           == [s |-> "^", e |-> Lit(0)]
Index(e)        == [s |-> "[", e |-> e]
Bin(o, l, r)    == [k |-> "bin", op |-> o, l |-> l, r |-> r]
Neg(e)          == [k |-> "neg", e |-> e]
Not(e)          == [k |-> "not", e |-> e]
\* f(e), f being a built-in function, named as its instruction is
Builtin(f, e)   == [k |-> "builtin", f |-> f, e |-> e]
\* the selector .f
Field(f)        == [s |-> ".", e |-> Lit(0), f |-> f]

\* the binary operators of term, simpleExpr and expression
MulOps == {"MUL", "DIV", "REM", "AND"}
AddOps == {"ADD", "SUB", "OR"}
RelOps == {"LTE", "LT", "GT", "GTE", "EQU", "NEQ"}
BinOps == MulOps \cup AddOps \cup RelOps

promoteSwapped(g, lhs, rhs) ==
    IF lhs.tclass = rhs.tclass THEN [g |-> g, type |-> lhs]
    ELSE IF (isAnInteger(lhs) /\ isAnInteger(rhs)) \/ (isAReal(lhs) /\ isAReal(rhs))
         THEN [g |-> g, type |-> lhs]
    ELSE IF isAnInteger(lhs) /\ isAReal(rhs)
         THEN [g |-> emit(g, "ITOR", 0, I(0)), type |-> rhs]
    ELSE IF isAReal(lhs) /\ isAnInteger(rhs)
         THEN [g |-> emit(g, "ITOR2", 0, I(0)), type |-> lhs]
    ELSE [g |-> error(g), type |-> lhs]

promote(g, lhs, rhs) ==
    IF lhs.tclass = rhs.tclass THEN [g |-> g, type |-> lhs]
    ELSE IF (isAnInteger(lhs) /\ isAnInteger(rhs)) \/ (isAReal(lhs) /\ isAReal(rhs))
         THEN [g |-> g, type |-> lhs]
    ELSE IF isAnInteger(lhs) /\ isAReal(rhs)
         THEN [g |-> emit(g, "ITOR2", 0, I(0)), type |-> rhs]
    ELSE IF isAReal(lhs) /\ isAnInteger(rhs)
         THEN [g |-> emit(g, "ITOR", 0, I(0)), type |-> lhs]
    ELSE [g |-> error(g), type |-> lhs]

assignPromote(g, lhs, rhs) ==
    LET g1 == IF lhs.tclass = rhs.tclass THEN g
              ELSE IF (isAnInteger(lhs) /\ isAnInteger(rhs)) \/ (isAReal(lhs) /\ isAReal(rhs))
                   THEN g
              ELSE IF isAnInteger(lhs) /\ isAReal(rhs) THEN emit(error(g), "ROUND", 0, I(0))
              ELSE IF isAReal(lhs) /\ isAnInteger(rhs) THEN emit(g, "ITOR", 0, I(0))
              ELSE error(g)
    IN  IF isOrdinal(lhs) /\ lhs.range # maxRange
        THEN emit(emit(g1, "LLIMIT", 0, I(lhs.range.min)), "ULIMIT", 0, I(lhs.range.max))
        ELSE g1

RECURSIVE expression(_, _, _, _)
RECURSIVE actuals(_, _, _, _, _, _)
RECURSIVE selectors(_, _, _, _, _)

\* an index into an array of that type compiled, for the history: from the
\* end of the index expression (address from) to the ADD emitted next, with
\* the bounds of the index and the size of an element
indexed(g, from, atype, ty, g0) ==
    [g EXCEPT !.idxs = @ \cup {[from |-> from, at |-> Len(g.code),
                                lo |-> atype.range.min, hi |-> atype.range.max,
                                size |-> ty.size, err |-> g.nErrors > g0.nErrors]}]

\* varArray(level, it, type) with one index expression
varArray(g, level, tbl, atype, e) ==
    With(baseOf(atype), LAMBDA ty :
    With(expression(IF atype.tclass # "Array" THEN error(g) ELSE g, level, tbl, e),
         LAMBDA x :
    With(emit(emit(x.g, "LLIMIT", 0, I(atype.range.min)),
              "ULIMIT", 0, I(atype.range.max)), LAMBDA g1 :
    With(IF itypeOf(atype).tclass # x.type.tclass THEN error(g1)
         ELSE IF ty.size # 1 THEN emit(emit(g1, "PUSH", 0, I(ty.size)), "MUL", 0, I(0))
         ELSE g1, LAMBDA g2 :
    With(IF atype.range.min # 0
         THEN emit(emit(g2, "PUSH", 0, I(atype.range.min)), "SUB", 0, I(0))
         ELSE g2, LAMBDA g3 :
    [g |-> emit(indexed(g3, Len(x.g.code), atype, ty, g), "ADD", 0, I(0)),
     type |-> ty])))))

RECURSIVE fieldsBeforeCounted(_, _, _, _)
fieldsBeforeCounted(fields, selector, n, offset) ==
    IF n > Len(fields) THEN [offset |-> offset, found |-> FALSE, type |-> NullDesc]
    ELSE IF fields[n].name = selector
    THEN [offset |-> offset, found |-> TRUE, type |-> fields[n].type]
    ELSE fieldsBeforeCounted(fields, selector, n + 1, offset + 1)

RECURSIVE fieldsBefore(_, _, _, _)
\* the for loop of varSelector over the fields from the n-th on: offset is
\* the sum of the sizes of the fields passed, and the loop ends at the field
\* named selector, or after the last field
fieldsBefore(fields, selector, n, offset) ==
    IF n > Len(fields) THEN [offset |-> offset, found |-> FALSE, type |-> NullDesc]
    ELSE IF fields[n].name = selector
    THEN [offset |-> offset, found |-> TRUE, type |-> fields[n].type]
    ELSE fieldsBefore(fields, selector, n + 1, offset + fields[n].type.size)

\* a record selector compiled, for the history: the record type, the
\* selector, the offset computed, the code emitted for it (from..at), the
\* type returned and whether an error was reported (g0 is the compilation
\* before the selector)
selected(g, g0, rtype, selector, f, ty) ==
    [g EXCEPT !.sels = @ \cup {[from |-> Len(g0.code), at |-> Len(g.code),
                                rtype |-> rtype, selector |-> selector,
                                offset |-> f.offset, found |-> f.found, type |-> ty,
                                err |-> g.nErrors > g0.nErrors]}]

\* varSelector(it, type), the selector being an identifier
varSelector(g, type, selector) ==
    With(IF type.tclass # "Record" THEN error(g) ELSE g, LAMBDA g1 :
    With(fieldsBefore(fieldsOf(type), selector, 1, 0), LAMBDA f :
    With(IF f.offset > 0
         THEN emit(emit(g1, "PUSH", 0, I(f.offset)), "ADD", 0, I(0))
         ELSE g1, LAMBDA g2 :
    With(IF f.found THEN f.type ELSE type, LAMBDA ty :
    [g |-> selected(g2, g, type, selector, f, ty), type |-> ty]))))

\* the loop of variable(): the selectors from the n-th on
selectors(x, level, tbl, sel, n) ==
    IF n > Len(sel) THEN x
    ELSE IF sel[n].s = "["
    THEN selectors(varArray(x.g, level, tbl, x.type, sel[n].e), level, tbl, sel, n + 1)
    ELSE IF sel[n].s = "."
    THEN selectors(varSelector(x.g, x.type, sel[n].f), level, tbl, sel, n + 1)
    ELSE With(emit(x.g, "EVAL", 0, I(x.type.size)), LAMBDA g1 :
         selectors(IF x.type.tclass # "Pointer" THEN [g |-> error(g1), type |-> x.type]
                   ELSE [g |-> g1, type |-> x.type.base],
                   level, tbl, sel, n + 1))

\* variable(level, it): the reference to the variable
variable(g, level, tbl, val, sel) ==
    selectors([g |-> emitVarRef(g, level, val), type |-> val.type], level, tbl, sel, 1)

\* a store of a value of that type by the instruction emitted next, for the
\* history: g0 is the compilation at the end of the r-value, rhs the r-value's
\* type class ("none" for the increment of a for loop)
store(g, g0, t, rhs) ==
    [g EXCEPT !.stores = @ \cup {[at |-> Len(g.code), type |-> t, rhs |-> rhs,
                                  rend |-> Len(g0.code),
                                  err |-> g.nErrors - g0.nErrors]}]

\* a binary operator emitted next, for the history: the operand types, the
\* result type, the end of the right operand, and whether promote reported
binary(g, g0, lhs, rhs, res) ==
    [g EXCEPT !.bins = @ \cup {[at |-> Len(g.code), rend |-> Len(g0.code),
                                l |-> lhs.tclass, r |-> rhs.tclass, res |-> res.tclass,
                                err |-> g.nErrors > g0.nErrors]}]

\* the do-while of callStatement: the actual parameters from the n-th on
actuals(g, level, tbl, params, args, n) ==
    IF n > Len(args) THEN g
    ELSE With(expression(g, level, tbl, args[n]), LAMBDA x :
         actuals(IF Len(params) > n - 1
                 THEN store(assignPromote(x.g, params[n], x.type), x.g, params[n],
                            x.type.tclass)
                 ELSE x.g,
                 level, tbl, params, args, n + 1))

\* a CALL emitted next, for the history: the subroutine it names, the level
\* of the caller, the numbers of actual and formal parameters, and whether
\* the count of actual parameters was reported (g is the compilation after
\* the check of the count, g1 before it)
called(g, g1, sub, level, nactual, nformal) ==
    [g EXCEPT !.calls = @ \cup {[at |-> Len(g.code), sub |-> sub, from |-> level,
                                 nactual |-> nactual, nformal |-> nformal,
                                 reported |-> g.nErrors > g1.nErrors]}]

\* callStatement(level, it)
callStatement(g, level, tbl, i, paren, args) ==
    With(tbl[i].val, LAMBDA val :
    With(IF paren THEN actuals(g, level, tbl, val.params, args, 1) ELSE g, LAMBDA g1 :
    With(IF paren /\ Len(args) # Len(val.params) THEN error(g1) ELSE g1, LAMBDA g2 :
    emit(IF val.kind # "Procedure" /\ val.kind # "Function"
         THEN error(called(g2, g1, tbl[i].id, level, Len(args), Len(val.params)))
         ELSE called(g2, g1, tbl[i].id, level, Len(args), Len(val.params)),
         "CALL", level - val.level, val.value))))

\* identFactor(level, id)
identFactor(g, level, tbl, e) ==
    With(resolve(g, tbl, e.name, level), LAMBDA r :
    IF r.it = 0 THEN [g |-> r.g, type |-> intDesc]
    ELSE With(tbl[r.it].val, LAMBDA val :
         IF val.kind = "Constant"
         THEN [g |-> emit(r.g, "PUSH", 0, val.value), type |-> val.type]
         ELSE IF val.kind = "Variable"
         THEN With(variable(r.g, level, tbl, val, e.sel), LAMBDA x :
              [g |-> emit(x.g, "EVAL", 0, I(x.type.size)), type |-> x.type])
         ELSE IF val.kind = "Function"
         THEN [g |-> callStatement(r.g, level, tbl, r.it, e.paren, e.args),
               type |-> val.type]
         ELSE [g |-> error(r.g), type |-> intDesc]))

\* the built-in functions that yield a real
RealFuncs == {"ATAN", "EXP", "LOG", "SIN", "SQR", "SQRT"}

\* a built-in function or a not compiled, for the history: f names it, the
\* code of its argument is lo..hi-1, at is the address of its instruction
\* (-1 when none is emitted), arg and type are the types of the argument and
\* of the result, err tells whether it reported an error (g0 is the
\* compilation at the end of the argument)
builtIn(g, g0, f, lo, at, arg, ty) ==
    [g EXCEPT !.blts = @ \cup {[f |-> f, lo |-> lo, hi |-> Len(g0.code), at |-> at,
                                arg |-> arg, type |-> ty,
                                err |-> g.nErrors > g0.nErrors]}]

\* the branch of builtInFunc(level) for the function e.f, from the end of
\* its argument x on
builtInOf(x, f) ==
    CASE f \in {"ROUND", "TRUNC"} ->
            IF x.type.tclass # "Real" THEN [g |-> error(x.g), type |-> x.type, at |-> -1]
            ELSE [g |-> emit(x.g, f, 0, I(0)), type |-> intDesc, at |-> Len(x.g.code)]
      [] f = "ABS" ->
            IF x.type.tclass # "Integer" /\ x.type.tclass # "Real"
            THEN [g |-> x.g, type |-> x.type, at |-> -1]
            ELSE [g |-> emit(x.g, f, 0, I(0)), type |-> x.type, at |-> Len(x.g.code)]
      [] f \in RealFuncs ->
            [g |-> emit(x.g, f, 0, I(0)), at |-> Len(x.g.code),
             type |-> IF x.type.tclass = "Integer" THEN realDesc ELSE x.type]
      [] f = "ODD" ->
            [g |-> emit(x.g, f, 0, I(0)), type |-> x.type, at |-> Len(x.g.code)]
      [] f = "PRED" ->
            [g |-> emit(x.g, f, 0, I(x.type.range.min)), type |-> x.type,
             at |-> Len(x.g.code)]
      [] f = "SUCC" ->
            [g |-> emit(x.g, f, 0, I(x.type.range.max)), type |-> x.type,
             at |-> Len(x.g.code)]
      [] f = "ORD" ->
            IF ~isOrdinal(x.type) THEN [g |-> error(x.g), type |-> x.type, at |-> -1]
            ELSE [g |-> x.g, type |-> intDesc, at |-> -1]

\* builtInFunc(level) at f(e)
builtInFunc(g, level, tbl, e) ==
    With(expression(g, level, tbl, e.e), LAMBDA x :
    With(builtInOf(x, e.f), LAMBDA b :
    [g |-> builtIn(b.g, x.g, e.f, Len(g.code), b.at, x.type, b.type), type |-> b.type]))

\* the branch of factor(level) at "not": the instruction, then the factor
notFactor(g, level, tbl, e) ==
    With(expression(emit(g, "NOT", 0, I(0)), level, tbl, e.e), LAMBDA x :
    [g |-> builtIn(x.g, x.g, "NOT", Len(g.code) + 1, Len(g.code), x.type, x.type),
     type |-> x.type])

\* factor, term, unary, simpleExpr and expression
expression(g, level, tbl, e) ==
    CASE e.k = "int"  -> [g |-> emit(g, "PUSH", 0, I(e.v)), type |-> intDesc]
      [] e.k = "not"  -> notFactor(g, level, tbl, e)
      [] e.k = "builtin" -> builtInFunc(g, level, tbl, e)
      [] e.k = "real" -> [g |-> emit(g, "PUSH", 0, R(e.v)), type |-> realDesc]
      [] e.k = "id"   -> identFactor(g, level, tbl, e)
      [] e.k = "neg"  -> With(expression(g, level, tbl, e.e), LAMBDA x :
                         [g |-> emit(x.g, "NEG", 0, I(0)), type |-> x.type])
      [] e.k = "bin"  -> With(expression(g, level, tbl, e.l), LAMBDA x :
                         With(expression(x.g, level, tbl, e.r), LAMBDA y :
                         With(promote(y.g, x.type, y.type), LAMBDA p :
                         [g |-> emit(binary(p.g, y.g, x.type, y.type, p.type),
                                     e.op, 0, I(0)),
                          type |-> p.type])))

\* assignStatement(level, it, dup), sel being the selectors of the variable
assignStatement(g, level, tbl, i, sel, dup, e) ==
    With(tbl[i].val, LAMBDA val :
    With(IF val.kind = "Function"
         THEN [g |-> emit(g, "PUSHVAR", 0, I(FrameRetVal)), type |-> val.type]
         ELSE IF val.kind = "Variable" THEN variable(g, level, tbl, val, sel)
         ELSE [g |-> error(g), type |-> val.type], LAMBDA v :
    With(expression(IF dup THEN emit(v.g, "DUP", 0, I(0)) ELSE v.g, level, tbl, e),
         LAMBDA x :
    [g |-> emit(store(assignPromote(x.g, v.type, x.type), x.g, v.type, x.type.tclass),
                "ASSIGN", 0, I(v.type.size)),
     type |-> v.type])))

statementNewUnstored(g, level, tbl, name, sel) ==
    With(resolve(g, tbl, name, level), LAMBDA r :
    With(IF r.it # 0 THEN variable(r.g, level, tbl, tbl[r.it].val, sel)
         ELSE [g |-> r.g, type |-> intDesc], LAMBDA v :
    emit(emit(IF v.type.tclass # "Pointer" THEN error(v.g) ELSE v.g,
              "PUSH", 0, I(v.type.size)), "NEW", 0, I(0))))

\* statementNew(level)
statementNew(g, level, tbl, name, sel) ==
    With(resolve(g, tbl, name, level), LAMBDA r :
    With(IF r.it # 0 THEN variable(r.g, level, tbl, tbl[r.it].val, sel)
         ELSE [g |-> r.g, type |-> intDesc], LAMBDA v :
    With(emit(IF v.type.tclass # "Pointer" THEN error(v.g) ELSE v.g,
              "PUSH", 0, I(v.type.size)), LAMBDA g1 :
    emit(emit(builtIn(g1, v.g, "NEW", Len(g.code), Len(g1.code), v.type, v.type),
              "NEW", 0, I(0)), "ASSIGN", 0, I(1)))))

\* statementProcs at "dispose"
statementDispose(g, level, tbl, e) ==
    With(expression(g, level, tbl, e), LAMBDA x :
    emit(IF x.type.tclass # "Pointer" THEN error(x.g) ELSE x.g, "DISPOSE", 0, I(0)))

-----------------------------------------------------------------------------
(* Declarations.  A constant expression of the source is                   *)
(*   [k |-> "int" | "real" | "id" | "none", sign, v, name]                 *)
(* and a type is [k |-> "name", name] or [k |-> "range", lo, hi].          *)

CInt(s, n)   == [k |-> "int",  sign |-> s, v |-> n, name |-> ""]
CReal(s, n)  == [k |-> "real", sign |-> s, v |-> n, name |-> ""]
CId(s, n)    == [k |-> "id",   sign |-> s, v |-> 0, name |-> n]
\* a token that starts no constant expression
CNone        == [k |-> "none", sign |-> 1, v |-> 0, name |-> ""]

TName(n)      == [k |-> "name", name |-> n]
TRange(a, b)  == [k |-> "range", lo |-> a, hi |-> b]
TPtr(b)       == [k |-> "ptr", base |-> b]
TArray(ix, b) == [k |-> "array", indexes |-> <<ix>>, base |-> b]
\* array [ixs[1], ..., ixs[k]] of b
TArrays(ixs, b) == [k |-> "array", indexes |-> ixs, base |-> b]
\* record fs end, fs being the declarations of the fields
TRec(fs)      == [k |-> "record", fields |-> fs]
\* a token that starts no type
TNone         == TRange(CNone, CNone)

\* constExpr(): <<first, second>> and the errors reported
\* (level is only recorded in the history of resolutions)
constExpr(g, tbl, level, ce) ==
    CASE ce.k = "int"  -> [g |-> g, first |-> TRUE, second |-> I(ce.sign * ce.v)]
      [] ce.k = "real" -> [g |-> g, first |-> TRUE, second |-> R(ce.sign * ce.v)]
      [] ce.k = "id"   ->
            With(resolve(g, tbl, ce.name, level), LAMBDA r :
            IF r.it = 0 THEN [g |-> r.g, first |-> TRUE, second |-> I(0)]
            ELSE IF tbl[r.it].val.kind = "Constant"
                 THEN [g |-> r.g, first |-> TRUE,
                       second |-> [tbl[r.it].val.value EXCEPT !.v = ce.sign * @]]
            ELSE [g |-> error(r.g), first |-> TRUE, second |-> I(0)])
      [] OTHER         -> [g |-> g, first |-> FALSE, second |-> I(0)]

\* a sub-range type built, for the history: the bounds as constExpr read
\* them, which of the two checks reported, the Datums whose integer() are
\* the bounds of the SubRange, and the type
subRange(g, mn, mx, inv, bad, ty) ==
    [g EXCEPT !.rngs = @ \cup {[lo |-> mn, hi |-> mx,
                                inverted |-> inv, reportedInverted |-> inv,
                                integral |-> ~bad, reportedKind |-> ~inv /\ bad,
                                min |-> IF inv THEN mx ELSE IF bad THEN I(0) ELSE mn,
                                max |-> IF inv THEN mn ELSE IF bad THEN I(1) ELSE mx,
                                type |-> ty]}]

\* ordinalType(level), the sub-range production
ordinalType(g, tbl, level, te) ==
    With(constExpr(g, tbl, level, te.lo), LAMBDA mn :
    IF ~mn.first THEN [g |-> mn.g, type |-> NullDesc, built |-> FALSE]
    ELSE
      With(constExpr(mn.g, tbl, level, te.hi), LAMBDA mx0 :
      LET mx  == IF ~mx0.first THEN mn.second ELSE mx0.second
          inv == mn.second.v > mx.v
          bad == mn.second.kind # "Integer" \/ mx.kind # "Integer"
          lo  == IF inv THEN mx.v ELSE IF bad THEN 0 ELSE mn.second.v
          hi  == IF inv THEN mn.second.v ELSE IF bad THEN 1 ELSE mx.v
      IN  [g |-> subRange(errors(mx0.g, (IF ~mx0.first THEN 1 ELSE 0)
                                        + (IF inv \/ bad THEN 1 ELSE 0)),
                          mn.second, mx, inv, bad, newIntDesc(lo, hi)),
           type |-> newIntDesc(lo, hi), built |-> TRUE]))

RECURSIVE type(_, _, _, _, _)
RECURSIVE varDeclListRead(_, _, _, _, _, _, _)

\* span() of a sub-range
span(r) == r.max - r.min + 1

\* newArrayDesc(size, range, index): the descriptor has no base type yet
newArrayOf(sz, r, index) ==
    [tclass |-> "Array", size |-> sz, range |-> r, itype |-> index, base |-> NullDesc]

RECURSIVE simpleTypeList(_, _, _, _, _, _)
\* simpleTypeList(level): the index types from the n-th on, each a sub-range
simpleTypeList(g, tbl, level, ixs, n, tdescs) ==
    IF n > Len(ixs) THEN [g |-> g, tdescs |-> tdescs]
    ELSE With(ordinalType(g, tbl, level, ixs[n]), LAMBDA ix :
         simpleTypeList(ix.g, tbl, level, ixs, n + 1, Append(tdescs, ix.type)))

RECURSIVE indexLoop(_, _, _, _)
\* the for loop of structuredType over the indexes from the n-th on: objs are
\* the descriptors built so far, the last of them is tdesc, and tp is the
\* place in objs of the descriptor tp points to, 0 for a null pointer
indexLoop(indexes, n, objs, tp) ==
    IF n > Len(indexes) THEN [objs |-> objs, tp |-> tp]
    ELSE With(indexes[n].range, LAMBDA r :
         With(Append(objs, newArrayOf(span(r), r, indexes[n])), LAMBDA os :
         IF tp = 0 THEN indexLoop(indexes, n + 1, os, Len(os))
         ELSE indexLoop(indexes, n + 1, [os EXCEPT ![tp].size = @ * span(r)], 0)))

\* sum of the sizes of the first n identifiers
RECURSIVE sizeSum(_, _)
sizeSum(idents, n) == IF n = 0 THEN 0 ELSE sizeSum(idents, n - 1) + idents[n].type.size

\* fieldList(level, prefix, fields): the fields are declared as variables
\* are, then their names lose the prefix up to the '.'; a prefix is an
\* identifier and holds no '.', what is left is the identifier declared
fieldList(g, tbl, level, prefix, decls) ==
    With(varDeclListRead(g, tbl, level, FALSE, prefix, decls, 0), LAMBDA v :
    [g |-> v.g, tbl |-> v.tbl, ub |-> v.ub \/ v.nulls,
     fields |-> [j \in 1..Len(v.idents) |->
                    [name |-> v.idents[j].id, type |-> v.idents[j].type]]])

\* structuredType(level, prefix); ub tells that a null pointer was
\* dereferenced: tp is null after an even number of indexes, and what is
\* returned then is tdesc as the loop left it
structuredType(g, tbl, level, prefix, te) ==
    IF te.k = "array"
    THEN With(simpleTypeList(g, tbl, level, te.indexes, 1, <<>>), LAMBDA ixs :
         With(type(ixs.g, tbl, level, "", te.base), LAMBDA b :
         IF b.type = NullDesc \/ \E n \in 1..Len(ixs.tdescs) : ixs.tdescs[n] = NullDesc
         THEN [g |-> b.g, tbl |-> b.tbl, ub |-> b.ub, type |-> NullDesc]
         ELSE With(indexLoop(ixs.tdescs, 1, <<>>, 0), LAMBDA l :
              IF l.tp = 0
              THEN [g |-> b.g, tbl |-> b.tbl, ub |-> TRUE, type |-> l.objs[Len(l.objs)]]
              ELSE With([l.objs EXCEPT ![l.tp].base = b.type,
                                       ![l.tp].size = @ * b.type.size], LAMBDA os :
                   [g |-> b.g, tbl |-> b.tbl, ub |-> b.ub, type |-> os[Len(os)]]))))
    ELSE With(fieldList(g, tbl, level, prefix, te.fields), LAMBDA f :
         [g |-> f.g, tbl |-> f.tbl, ub |-> f.ub,
          type |-> newRcrdDesc(sizeSum(f.fields, Len(f.fields)), f.fields)])

\* type(level, prefix)
type(g, tbl, level, prefix, te) ==
    IF te.k = "name"
    THEN With(resolve(g, tbl, te.name, level), LAMBDA r :
         IF r.it = 0 \/ tbl[r.it].val.kind # "Type"
         THEN [g |-> error(r.g), tbl |-> tbl, ub |-> FALSE, type |-> intDesc]
         ELSE [g |-> r.g, tbl |-> tbl, ub |-> FALSE, type |-> tbl[r.it].val.type])
    ELSE IF te.k = "ptr"
    THEN With(type(g, tbl, level, prefix, te.base), LAMBDA t :
         [g |-> t.g, tbl |-> t.tbl, ub |-> t.ub, type |-> newPointerDesc(t.type)])
    ELSE IF te.k \in {"array", "record"} THEN structuredType(g, tbl, level, prefix, te)
    ELSE With(ordinalType(g, tbl, level, te), LAMBDA o :
         [g |-> o.g, tbl |-> tbl, ub |-> FALSE, type |-> o.type])

\* the name nameDecl(level, prefix) returns for an identifier
qualified(prefix, id) == IF prefix = "" THEN id ELSE prefix \o "." \o id

RECURSIVE identifierList(_, _, _, _, _, _)
\* identifierList(level, prefix): nameDecl for each identifier from the n-th on
identifierList(g, tbl, level, prefix, ids, n) ==
    IF n > Len(ids) THEN g
    ELSE identifierList(nameDecl(g, tbl, qualified(prefix, ids[n]), level), tbl, level,
                        prefix, ids, n + 1)

RECURSIVE varDecls(_, _, _, _, _, _, _, _)
\* the do-while of varDeclList: varDecl for each declaration from the n-th on;
\* idents collects the <<name, type>> pairs (id is the identifier as written)
varDecls(g, tbl, level, prefix, decls, n, idents, ub) ==
    IF n > Len(decls) THEN [g |-> g, tbl |-> tbl, idents |-> idents, ub |-> ub]
    ELSE With(type(identifierList(g, tbl, level, prefix, decls[n].ids, 1), tbl, level,
                   prefix, decls[n].type), LAMBDA t :
         varDecls(t.g, t.tbl, level, prefix, decls, n + 1,
                  idents \o [j \in 1..Len(decls[n].ids) |->
                                [name |-> qualified(prefix, decls[n].ids[j]),
                                 id |-> decls[n].ids[j], type |-> t.type]],
                  ub \/ t.ub))

\* the number of entries named name at that level
nDefinedAt(tbl, name, l) ==
    Cardinality({i \in equal_range(tbl, name) : tbl[i].val.level = l})

RECURSIVE install(_, _, _, _, _, _)
\* the second loop of varDeclList: install the identifiers from the n-th on
install(g, tbl, level, idents, n, dx) ==
    IF n > Len(idents) THEN [g |-> g, tbl |-> tbl]
    ELSE LET id == idents[n]
             g1 == errors(g, nDefinedAt(tbl, id.name, level))
         IN  install(g1, insert(tbl, id.name, makeVar(level, dx, id.type)),
                     level, idents, n + 1, dx + id.type.size)

\* is the type of one of the identifiers a null pointer?
nulls(idents) == \E j \in 1..Len(idents) : idents[j].type = NullDesc

\* the identifiers as id.type()->size() reads them: through a null pointer
\* the read is undefined, sz is what it yields when the process survives it
deref(idents, sz) ==
    [j \in 1..Len(idents) |->
        IF idents[j].type = NullDesc THEN [idents[j] EXCEPT !.type.size = sz]
        ELSE idents[j]]

varDeclListReadFromZero(g, tbl, level, params, prefix, decls, sz) ==
    With(varDecls(g, tbl, level, prefix, decls, 1, <<>>, FALSE), LAMBDA d :
    With(deref(d.idents, sz), LAMBDA ids :
    With(install(d.g, d.tbl, level, ids, 1, 0), LAMBDA r :
    [g |-> r.g, tbl |-> r.tbl, idents |-> ids, nulls |-> nulls(d.idents), ub |-> d.ub])))

\* varDeclList(level, params, prefix, idents), sz being read through null pointers
varDeclListRead(g, tbl, level, params, prefix, decls, sz) ==
    With(varDecls(g, tbl, level, prefix, decls, 1, <<>>, FALSE), LAMBDA d :
    With(deref(d.idents, sz), LAMBDA ids :
    With(install(d.g, d.tbl, level, ids, 1,
                 IF params THEN -sizeSum(ids, Len(ids)) ELSE 0), LAMBDA r :
    [g |-> r.g, tbl |-> r.tbl, idents |-> ids, nulls |-> nulls(d.idents), ub |-> d.ub])))

\* varDeclList(level, params, prefix, idents)
varDeclList(g, tbl, level, params, decls) ==
    varDeclListRead(g, tbl, level, params, "", decls, 0)

\* subPrefixDecl(level, kind); it is the place of the new entry
subPrefixDecl(g, tbl, level, kind, name, paren, decls) ==
    With(insert(tbl, name, makeSbr(kind, level)), LAMBDA t1 :
    IF paren
    THEN With(varDeclList(nameDecl(g, tbl, name, level), t1, level + 1, TRUE, decls),
              LAMBDA v :
              [g |-> v.g, it |-> Len(t1),
               tbl |-> [v.tbl EXCEPT ![Len(t1)].val.params =
                          [j \in 1..Len(v.idents) |-> v.idents[j].type]]])
    ELSE [g |-> nameDecl(g, tbl, name, level), tbl |-> t1, it |-> Len(t1)])

-----------------------------------------------------------------------------
(* The source.  A construct is a record tagged c; Inputs gives the         *)
(* constructs a production may read now and Consume reads one.             *)

Inputs(tag, S) ==
    IF free THEN S
    ELSE IF src # <<>> /\ Head(src).c = tag THEN {Head(src)} ELSE {}

Budget(counted) == (free /\ counted) => nprod < MaxProd

Consume(counted) ==
    IF free THEN /\ src' = src
                 /\ nprod' = IF counted THEN nprod + 1 ELSE nprod
    ELSE /\ src' = Tail(src)
         /\ nprod' = nprod

\* the constructs of a freely read source
FreeProg   == {[c |-> "program", name |-> "m"]}
FreeConst  == {[c |-> "const", name |-> "t", value |-> CInt(1, 2)]}
FreeType   == {[c |-> "type", name |-> "t", type |-> t] :
                  t \in {TRange(CInt(1, 1), CInt(1, 2)), TName("real")}}
FreeVar    == {[c |-> "var", decls |-> <<[ids |-> <<"x">>, type |-> t]>>] :
                  t \in {TName("real"), TName("t"), TRange(CInt(1, 1), CInt(1, 2))}}
              \cup {[c |-> "var", decls |-> <<[ids |-> i, type |-> TName("integer")]>>] :
                  i \in {<<"x", "x">>, <<"t">>}}
              \cup {[c |-> "var", decls |-> <<[ids |-> <<"x">>, type |-> TNone]>>]}
FreeParams == <<[ids |-> <<"x">>, type |-> TName("integer")]>>
FreeProc   == {[c |-> "procedure", name |-> n, paren |-> FALSE, params |-> <<>>] :
                  n \in {"p", "q"}}
              \cup {[c |-> "procedure", name |-> "p", paren |-> TRUE, params |-> FreeParams]}
FreeFunc   == {[c |-> "function", name |-> "q", paren |-> FALSE, params |-> <<>>,
                ret |-> TName("integer")],
               [c |-> "function", name |-> "q", paren |-> TRUE, params |-> FreeParams,
                ret |-> TName("t")],
               [c |-> "function", name |-> "q", paren |-> TRUE,
                params |-> <<[ids |-> <<"t">>, type |-> TName("integer")]>>,
                ret |-> TName("t")]}
FreeAtoms  == {Lit(3), RLit(3), Id("q"), Fn("q", <<Lit(3)>>)}
FreeExprs  == FreeAtoms \cup
              {Bin("MUL", RLit(3), Lit(3)), Bin("ADD", Lit(3), RLit(3)),
               Bin("LTE", RLit(3), RLit(3)), Bin("ADD", Id("x"), Lit(3)),
               Bin("ADD", Id("true"), Lit(3))}
FreeAssign == {[c |-> "assign", name |-> "x", sel |-> <<>>, e |-> e] : e \in FreeExprs}
              \cup {[c |-> "assign", name |-> "q", sel |-> <<>>, e |-> Lit(3)]}
FreeNew    == {[c |-> "new", name |-> "x", sel |-> <<>>]}
FreeDispose == {[c |-> "dispose", e |-> Id("x")]}
FreeCall   == {[c |-> "call", name |-> n, paren |-> FALSE, args |-> <<>>] : n \in {"p", "q"}}
              \cup {[c |-> "call", name |-> "p", paren |-> TRUE, args |-> <<RLit(3)>>]}
FreeFor    == {[c |-> "for", name |-> "x", e1 |-> Lit(1), inc |-> d, e2 |-> Lit(2)] :
                  d \in {1, -1}}
FreeIf     == {[c |-> "if", e |-> Bin("LTE", Id("x"), Lit(3))]}
FreeWhile  == {[c |-> "while", e |-> Bin("LTE", Id("x"), Lit(3))]}

\* does the argument list of every call in e follow the name of a function?
RECURSIVE parses(_, _)
parses(tbl, e) ==
    CASE e.k = "id"  -> /\ e.paren => /\ lookup(tbl, e.name) # 0
                                      /\ tbl[lookup(tbl, e.name)].val.kind = "Function"
                        /\ \A n \in 1..Len(e.args) : parses(tbl, e.args[n])
      [] e.k = "bin" -> parses(tbl, e.l) /\ parses(tbl, e.r)
      [] e.k = "neg" -> parses(tbl, e.e)
      [] OTHER       -> TRUE

-----------------------------------------------------------------------------
(* The compiler's position *)

Top   == stk[Len(stk)]
Level == Top.level

G == Ctx(code, nErrors, calls, stores, bins, ctls, idxs, blts, sels, rngs)

Commit(g) ==
    /\ code' = g.code
    /\ nErrors' = g.nErrors
    /\ calls' = g.calls
    /\ stores' = g.stores
    /\ lk' = g.lk
    /\ bins' = g.bins
    /\ ctls' = g.ctls
    /\ idxs' = g.idxs
    /\ blts' = g.blts
    /\ sels' = g.sels
    /\ rngs' = g.rngs

Compiling == phase = "compile" /\ stk # <<>>

\* the Datums that the productions s[1..n] keep above the frame of the
\* innermost block while a statement of theirs runs: the block's locals and
\* the variable address each for statement saves
RECURSIVE kept(_, _)
kept(s, n) ==
    IF n = 0 THEN 0
    ELSE IF s[n].f = "block" THEN s[n].dx
    ELSE (IF s[n].f = "for" THEN 1 ELSE 0) + kept(s, n - 1)

\* a statement compiled, for the history: its kind, the addresses its
\* production keeps, the address after its code, and the Datums kept above
\* the frame where it starts and ends
Stmt(k, jmp_pc, else_pc, cond_pc, end, depth) ==
    [k |-> k, jmp_pc |-> jmp_pc, else_pc |-> else_pc, cond_pc |-> cond_pc, end |-> end,
     depth |-> depth]

\* a statement compiled, for the history
compiled(g, rec) == [g EXCEPT !.ctls = @ \cup {rec}]

\* an assignment, a call, new or dispose compiled from address from on
simple(g, from, depth) == compiled(g, Stmt("stmt", -1, -1, from, Len(g.code), depth))

\* a statement is expected
ExpectStmt ==
    /\ Compiling
    /\ \/ Top.f = "block" /\ Top.stage = 4
       \/ Top.f = "compound"
       \/ Top.f \in {"for", "while"} /\ Top.stage = "body"
       \/ Top.f = "if" /\ Top.stage \in {"then", "else"}

\* the innermost waiting production gets its statement
stmtDone(s) ==
    LET t == s[Len(s)] IN
    IF t.f \in {"block", "compound"} THEN s
    ELSE [s EXCEPT ![Len(s)].stage = IF t.stage = "then" THEN "afterThen" ELSE "after"]

BlockFrame(l, it, sub, cpc, snap) ==
    [f |-> "block", level |-> l, val |-> it, sub |-> sub, stage |-> 0, dx |-> 0,
     addr |-> 0, call_pc |-> cpc, snap |-> snap]

Sub(name, l, kind, n, lo) ==
    [name |-> name, level |-> l, kind |-> kind, nparams |-> n, entry |-> -1,
     lo |-> lo, dx |-> 0, body |-> -1, hi |-> -1]

\* the symbol table as the constructor leaves it
builtins ==
    <<[name |-> "bool",    val |-> makeType(0, boolDesc), id |-> 0],
      [name |-> "char",    val |-> makeType(0, charDesc), id |-> 0],
      [name |-> "integer", val |-> makeType(0, intDesc),  id |-> 0],
      [name |-> "real",    val |-> makeType(0, realDesc), id |-> 0],
      [name |-> "maxint",  val |-> makeConst(0, I(IntMax), intDesc), id |-> 0],
      [name |-> "nil",     val |-> makeConst(0, I(0), newPointerDesc(intDesc)), id |-> 0],
      [name |-> "true",    val |-> makeConst(0, I(1), boolDesc), id |-> 0],
      [name |-> "false",   val |-> makeConst(0, I(0), boolDesc), id |-> 0]>>


-----------------------------------------------------------------------------
(* The productions *)

\* progDecl up to its call of blockDecl
ProgDecl ==
    /\ phase = "compile" /\ stk = <<>> /\ code = <<>>
    /\ \E inp \in Inputs("program", FreeProg) :
       \E s \in {subPrefixDecl(G, symtbl, 0, "Procedure", inp.name, FALSE, <<>>)} :
       \E t \in {[s.tbl EXCEPT ![s.it].id = 1]} :
            /\ symtbl' = t
            /\ Commit(emit(emit(s.g, "CALL", 0, I(0)), "HALT", 0, I(0)))
            /\ stk' = <<BlockFrame(0, s.it, 1, size(s.g), t)>>
            /\ subs' = <<Sub(inp.name, 0, "Procedure", 0, size(s.g) + 2)>>
    /\ Consume(FALSE)
    /\ UNCHANGED <<phase, argv, source, cmdOk, exitCode, free, machVars>>

\* constDecl
ConstDecl ==
    /\ Compiling /\ Top.f = "block" /\ Top.stage = 0 /\ Budget(TRUE)
    /\ \E inp \in Inputs("const", FreeConst) :
       \E v \in {constExpr(nameDecl(G, symtbl, inp.name, Level), symtbl, Level, inp.value)} :
            /\ symtbl' = insert(symtbl, inp.name,
                                makeConst(Level, v.second,
                                          IF v.second.kind = "Integer" THEN intDesc
                                          ELSE realDesc))
            /\ Commit(IF ~v.first THEN error(v.g) ELSE v.g)
    /\ Consume(TRUE)
    /\ UNCHANGED <<phase, argv, source, cmdOk, exitCode, free, stk, subs, machVars>>

\* typeDecl; when the type dereferenced a null pointer the behaviour is
\* undefined: the process is killed, or goes on with what was built
TypeDecl ==
    /\ Compiling /\ Top.f = "block" /\ Top.stage <= 1 /\ Budget(TRUE)
    /\ \E inp \in Inputs("type", FreeType) :
       \E t \in {type(nameDecl(G, symtbl, inp.name, Level), symtbl, Level, inp.name,
                      inp.type)} :
       \E killed \in IF t.ub THEN BOOLEAN ELSE {FALSE} :
            IF killed
            THEN /\ phase' = "crash"
                 /\ UNCHANGED <<symtbl, code, nErrors, calls, stores, lk, bins, ctls,
                              idxs, blts, sels, rngs, stk>>
            ELSE /\ symtbl' = insert(t.tbl, inp.name, makeType(Level, t.type))
                 /\ Commit(t.g)
                 /\ stk' = [stk EXCEPT ![Len(stk)].stage = 1]
                 /\ UNCHANGED phase
    /\ Consume(TRUE)
    /\ UNCHANGED <<argv, source, cmdOk, exitCode, free, subs, machVars>>

\* the sizes a read through a null pointer may yield
GarbageSizes == {0, 1}

\* varDeclBlock; when the type of a variable is a null pointer the reads of
\* its size are undefined: the process is killed, or reads some size
VarDeclBlock ==
    /\ Compiling /\ Top.f = "block" /\ Top.stage <= 1 /\ Budget(TRUE)
    /\ \E inp \in Inputs("var", FreeVar) :
       \E sz \in {-1} \cup GarbageSizes :
       \E v \in {varDeclListRead(G, symtbl, Level, FALSE, "", inp.decls, sz)} :
            /\ IF v.nulls THEN TRUE ELSE IF v.ub THEN sz \in {-1, 0} ELSE sz = 0
            /\ IF sz < 0
               THEN /\ phase' = "crash"
                    /\ UNCHANGED <<symtbl, code, nErrors, calls, stores, lk, bins, ctls,
                                 idxs, blts, sels, rngs, stk>>
               ELSE /\ symtbl' = v.tbl
                    /\ Commit(v.g)
                    /\ stk' = [stk EXCEPT ![Len(stk)].stage = 2,
                                          ![Len(stk)].dx = sizeSum(v.idents, Len(v.idents))]
                    /\ UNCHANGED phase
    /\ Consume(TRUE)
    /\ UNCHANGED <<argv, source, cmdOk, exitCode, free, subs, machVars>>

\* procDecl up to its call of blockDecl
ProcDecl ==
    /\ Compiling /\ Top.f = "block" /\ Top.stage <= 3 /\ Budget(TRUE)
    /\ Level < MaxLevel
    /\ \E inp \in Inputs("procedure", FreeProc) :
       \E s \in {subPrefixDecl(G, symtbl, Level, "Procedure", inp.name, inp.paren,
                               inp.params)} :
       \E t \in {[s.tbl EXCEPT ![s.it].id = Len(subs) + 1]} :
            /\ symtbl' = t
            /\ Commit(s.g)
            /\ stk' = Append([stk EXCEPT ![Len(stk)].stage = 3],
                             BlockFrame(Level + 1, s.it, Len(subs) + 1, -1, t))
            /\ subs' = Append(subs, Sub(inp.name, Level, "Procedure",
                                        Len(t[s.it].val.params), size(s.g)))
    /\ Consume(TRUE)
    /\ UNCHANGED <<phase, argv, source, cmdOk, exitCode, free, machVars>>

\* funcDecl up to its call of blockDecl
FuncDecl ==
    /\ Compiling /\ Top.f = "block" /\ Top.stage <= 3 /\ Budget(TRUE)
    /\ Level < MaxLevel
    /\ \E inp \in Inputs("function", FreeFunc) :
       \E s \in {subPrefixDecl(G, symtbl, Level, "Function", inp.name, inp.paren,
                               inp.params)} :
       \E r \in {type(s.g, s.tbl, Level, "", inp.ret)} :
       \E t \in {[r.tbl EXCEPT ![s.it].id = Len(subs) + 1, ![s.it].val.type = r.type]} :
            /\ symtbl' = t
            /\ Commit(r.g)
            /\ stk' = Append([stk EXCEPT ![Len(stk)].stage = 3],
                             BlockFrame(Level + 1, s.it, Len(subs) + 1, -1, t))
            /\ subs' = Append(subs, Sub(inp.name, Level, "Function",
                                        Len(t[s.it].val.params), size(r.g)))
    /\ Consume(TRUE)
    /\ UNCHANGED <<phase, argv, source, cmdOk, exitCode, free, machVars>>

blockEntryEarly(g, dx, lo) == [g |-> g, addr |-> lo]

\* blockDecl: the block's prefix and its entry address
\* (lo is the address of the first instruction emitted since the subroutine's heading)
blockEntry(g, dx, lo) ==
    IF dx > 0 THEN [g |-> emit(g, "ENTER", 0, I(dx)), addr |-> size(g)]
    ELSE [g |-> g, addr |-> size(g)]

\* blockDecl from the end of the declarations to "begin"
BlockBegin ==
    /\ Compiling /\ Top.f = "block" /\ Top.stage <= 3
    /\ \E inp \in Inputs("begin", {[c |-> "begin"]}) :
       \E b \in {blockEntry(G, Top.dx, subs[Top.sub].lo)} :
            /\ symtbl' = [symtbl EXCEPT ![Top.val].val.value = I(b.addr)]
            /\ Commit(b.g)
            /\ stk' = [stk EXCEPT ![Len(stk)].stage = 4, ![Len(stk)].addr = b.addr]
            /\ subs' = [subs EXCEPT ![Top.sub].entry = b.addr,
                                    ![Top.sub].dx = Top.dx,
                                    ![Top.sub].body = size(b.g)]
    /\ Consume(FALSE)
    /\ UNCHANGED <<phase, argv, source, cmdOk, exitCode, free, machVars>>

blockPostfixNoCount(g, val) ==
    IF val.kind = "Function" THEN emit(g, "RETF", 0, I(0)) ELSE emit(g, "RET", 0, I(0))

\* blockDecl: the block's postfix
blockPostfix(g, val) ==
    IF val.kind = "Function" THEN emit(g, "RETF", 0, I(Len(val.params)))
    ELSE emit(g, "RET", 0, I(Len(val.params)))

\* blockDecl from "end", and what its caller does with the address returned
BlockEnd ==
    /\ Compiling /\ Top.f = "block" /\ Top.stage = 4
    /\ \E inp \in Inputs("end", {[c |-> "end"]}) :
       \E g1 \in {blockPostfix(G, symtbl[Top.val].val)} :
            /\ symtbl' = purge(symtbl, Level)
            /\ Commit(IF Top.call_pc >= 0
                      THEN [g1 EXCEPT !.code = Patch(@, Top.call_pc, Top.addr)]
                      ELSE g1)
            /\ subs' = [subs EXCEPT ![Top.sub].hi = size(G)]
    /\ stk' = SubSeq(stk, 1, Len(stk) - 1)
    /\ phase' = IF Len(stk) = 1 THEN "load" ELSE phase
    /\ Consume(FALSE)
    /\ UNCHANGED <<argv, source, cmdOk, exitCode, free, machVars>>

\* identStatement of a variable or a function: assignStatement
AssignStmt ==
    /\ ExpectStmt /\ Budget(TRUE)
    /\ \E inp \in Inputs("assign", FreeAssign) :
       \E r \in {resolve(G, symtbl, inp.name, Level)} :
        /\ r.it # 0
        /\ symtbl[r.it].val.kind \in {"Variable", "Function"}
        /\ parses(symtbl, inp.e)
        /\ Commit(simple(assignStatement(r.g, Level, symtbl, r.it, inp.sel, FALSE, inp.e).g,
                         Len(code), kept(stk, Len(stk))))
    /\ stk' = stmtDone(stk)
    /\ Consume(TRUE)
    /\ UNCHANGED <<phase, argv, source, cmdOk, exitCode, free, symtbl, subs, machVars>>

\* identStatement of a procedure: callStatement
CallStmt ==
    /\ ExpectStmt /\ Budget(TRUE)
    /\ \E inp \in Inputs("call", FreeCall) :
       \E r \in {resolve(G, symtbl, inp.name, Level)} :
        /\ r.it # 0
        /\ symtbl[r.it].val.kind = "Procedure"
        /\ \A n \in 1..Len(inp.args) : parses(symtbl, inp.args[n])
        /\ Commit(simple(callStatement(r.g, Level, symtbl, r.it, inp.paren, inp.args),
                         Len(code), kept(stk, Len(stk))))
    /\ stk' = stmtDone(stk)
    /\ Consume(TRUE)
    /\ UNCHANGED <<phase, argv, source, cmdOk, exitCode, free, symtbl, subs, machVars>>

\* statementProcs at "new": statementNew
NewStmt ==
    /\ ExpectStmt /\ Budget(TRUE)
    /\ \E inp \in Inputs("new", FreeNew) :
         Commit(simple(statementNew(G, Level, symtbl, inp.name, inp.sel),
                       Len(code), kept(stk, Len(stk))))
    /\ stk' = stmtDone(stk)
    /\ Consume(TRUE)
    /\ UNCHANGED <<phase, argv, source, cmdOk, exitCode, free, symtbl, subs, machVars>>

\* statementProcs at "dispose"
DisposeStmt ==
    /\ ExpectStmt /\ Budget(TRUE)
    /\ \E inp \in Inputs("dispose", FreeDispose) :
        /\ parses(symtbl, inp.e)
        /\ Commit(simple(statementDispose(G, Level, symtbl, inp.e),
                         Len(code), kept(stk, Len(stk))))
    /\ stk' = stmtDone(stk)
    /\ Consume(TRUE)
    /\ UNCHANGED <<phase, argv, source, cmdOk, exitCode, free, symtbl, subs, machVars>>

\* statementProcs when no statement follows
EmptyStmt ==
    /\ ExpectStmt /\ Budget(TRUE)
    /\ Top.f # "block"
    /\ \E inp \in Inputs("skip", {[c |-> "skip"]}) : TRUE
    /\ stk' = stmtDone(stk)
    /\ Consume(TRUE)
    /\ UNCHANGED <<phase, argv, source, cmdOk, exitCode, free, symtbl, code, nErrors, subs,
                   calls, stores, lk, bins, ctls, idxs, blts, sels, rngs,
                   machVars>>

\* the comparison forStatement emits at the head of the loop
forTest(inc) == "LTE"

\* forStatement up to the statement after "do"
ForBegin ==
    /\ ExpectStmt /\ Budget(TRUE)
    /\ \E inp \in Inputs("for", FreeFor) :
       \E r \in {resolve(G, symtbl, inp.name, Level)} :
        /\ r.it # 0
        /\ parses(symtbl, inp.e1) /\ parses(symtbl, inp.e2)
        /\ \E a \in {assignStatement(r.g, Level, symtbl, r.it, <<>>, TRUE, inp.e1)} :
           \E x \in {expression(emit(emit(a.g, "DUP", 0, I(0)), "EVAL", 0, I(1)),
                                Level, symtbl, inp.e2)} :
            /\ Commit(emit(emit(x.g, forTest(inp.inc), 0, I(0)), "JNEQ", 0, I(0)))
            /\ stk' = Append(stk, [f |-> "for", level |-> Level, stage |-> "body",
                                   cond_pc |-> size(a.g), jmp_pc |-> size(x.g) + 1,
                                   inc |-> inp.inc, vtype |-> a.type])
    /\ Consume(TRUE)
    /\ UNCHANGED <<phase, argv, source, cmdOk, exitCode, free, symtbl, subs, machVars>>

\* the instructions forStatement emits after the statement
forStep(g, inc, cond_pc, vtype) ==
    emit(emit(emit(store(emit(emit(emit(emit(emit(g,
        "DUP", 0, I(0)), "DUP", 0, I(0)), "EVAL", 0, I(1)), "PUSH", 0, I(inc)),
        "ADD", 0, I(0)), g, vtype, "none"),
        "ASSIGN", 0, I(1)), "JUMP", 0, I(cond_pc)), "POP", 0, I(1))

\* forStatement after the statement
ForEnd ==
    /\ Compiling /\ Top.f = "for" /\ Top.stage = "after"
    /\ \E g1 \in {forStep(G, Top.inc, Top.cond_pc, Top.vtype)} :
         Commit(compiled([g1 EXCEPT !.code = Patch(@, Top.jmp_pc, size(g1) - 1)],
                         Stmt("for", Top.jmp_pc, -1, Top.cond_pc, size(g1),
                              kept(stk, Len(stk) - 1))))
    /\ stk' = stmtDone(SubSeq(stk, 1, Len(stk) - 1))
    /\ UNCHANGED <<phase, argv, source, cmdOk, exitCode, src, free, nprod, symtbl, subs, machVars>>

\* ifStatement up to the statement after "then"
IfBegin ==
    /\ ExpectStmt /\ Budget(TRUE)
    /\ \E inp \in Inputs("if", FreeIf) :
        /\ parses(symtbl, inp.e)
        /\ \E x \in {expression(G, Level, symtbl, inp.e)} :
            /\ Commit(emit(x.g, "JNEQ", 0, I(0)))
            /\ stk' = Append(stk, [f |-> "if", level |-> Level, stage |-> "then",
                                   jmp_pc |-> size(x.g), else_pc |-> 0])
    /\ Consume(TRUE)
    /\ UNCHANGED <<phase, argv, source, cmdOk, exitCode, free, symtbl, subs, machVars>>

ifElseAtJump(g, jmp_pc) ==
    [emit(g, "JUMP", 0, I(0)) EXCEPT !.code = Patch(@, jmp_pc, size(g))]

\* ifStatement at "else": the jump over the else statement, and the patch of
\* the conditional jump to the address after it
ifElse(g, jmp_pc) ==
    [emit(g, "JUMP", 0, I(0)) EXCEPT !.code = Patch(@, jmp_pc, size(g) + 1)]


\* ifStatement at "else"
IfElse ==
    /\ Compiling /\ Top.f = "if" /\ Top.stage = "afterThen" /\ Budget(TRUE)
    /\ \E inp \in Inputs("else", {[c |-> "else"]}) :
        /\ Commit(ifElse(G, Top.jmp_pc))
        /\ stk' = [stk EXCEPT ![Len(stk)].stage = "else",
                              ![Len(stk)].else_pc = Len(code)]
    /\ Consume(TRUE)
    /\ UNCHANGED <<phase, argv, source, cmdOk, exitCode, free, symtbl, subs, machVars>>

\* ifStatement without "else", or after the statement that follows "else"
IfEnd ==
    /\ Compiling /\ Top.f = "if" /\ Top.stage \in {"afterThen", "after"}
    /\ IF Top.stage = "afterThen" /\ ~free /\ src # <<>> THEN Head(src).c # "else" ELSE TRUE
    /\ Commit(compiled([G EXCEPT !.code = Patch(@, IF Top.stage = "afterThen"
                                                   THEN Top.jmp_pc
                                                   ELSE Top.else_pc, Len(code))],
                       Stmt("if", Top.jmp_pc,
                            IF Top.stage = "afterThen" THEN -1 ELSE Top.else_pc,
                            -1, Len(code), kept(stk, Len(stk) - 1))))
    /\ stk' = stmtDone(SubSeq(stk, 1, Len(stk) - 1))
    /\ UNCHANGED <<phase, argv, source, cmdOk, exitCode, src, free, nprod, symtbl, subs, machVars>>

\* statement at "begin": a statement list follows
CompoundBegin ==
    /\ ExpectStmt /\ Budget(TRUE)
    /\ \E inp \in Inputs("begin", {[c |-> "begin"]}) :
         stk' = Append(stk, [f |-> "compound", level |-> Level])
    /\ Consume(TRUE)
    /\ UNCHANGED <<phase, argv, source, cmdOk, exitCode, free, symtbl, code, nErrors, subs,
                   calls, stores, lk, bins, ctls, idxs, blts, sels, rngs,
                   machVars>>

\* statement at the "end" of its statement list
CompoundEnd ==
    /\ Compiling /\ Top.f = "compound"
    /\ \E inp \in Inputs("end", {[c |-> "end"]}) :
         stk' = stmtDone(SubSeq(stk, 1, Len(stk) - 1))
    /\ Consume(FALSE)
    /\ UNCHANGED <<phase, argv, source, cmdOk, exitCode, free, symtbl, code, nErrors, subs,
                   calls, stores, lk, bins, ctls, idxs, blts, sels, rngs,
                   machVars>>

\* whileStatement up to the statement after "do"
WhileBegin ==
    /\ ExpectStmt /\ Budget(TRUE)
    /\ \E inp \in Inputs("while", FreeWhile) :
        /\ parses(symtbl, inp.e)
        /\ \E x \in {expression(G, Level, symtbl, inp.e)} :
            /\ Commit(emit(x.g, "JNEQ", 0, I(0)))
            /\ stk' = Append(stk, [f |-> "while", level |-> Level, stage |-> "body",
                                   cond_pc |-> Len(code), jmp_pc |-> size(x.g)])
    /\ Consume(TRUE)
    /\ UNCHANGED <<phase, argv, source, cmdOk, exitCode, free, symtbl, subs, machVars>>

whileEndAtJump(g, cond_pc, jmp_pc) ==
    [emit(g, "JUMP", 0, I(cond_pc)) EXCEPT !.code = Patch(@, jmp_pc, size(g))]

\* whileStatement after the statement: the jump back to the condition, and
\* the patch of the conditional jump to the address after it
whileEnd(g, cond_pc, jmp_pc) ==
    [emit(g, "JUMP", 0, I(cond_pc)) EXCEPT !.code = Patch(@, jmp_pc, size(g) + 1)]

\* whileStatement after the statement
WhileEnd ==
    /\ Compiling /\ Top.f = "while" /\ Top.stage = "after"
    /\ \E g1 \in {whileEnd(G, Top.cond_pc, Top.jmp_pc)} :
         Commit(compiled(g1, Stmt("while", Top.jmp_pc, -1, Top.cond_pc, size(g1),
                                  kept(stk, Len(stk) - 1))))
    /\ stk' = stmtDone(SubSeq(stk, 1, Len(stk) - 1))
    /\ UNCHANGED <<phase, argv, source, cmdOk, exitCode, src, free, nprod, symtbl, subs,
                   machVars>>

CompileStep ==
    \/ ProgDecl \/ ConstDecl \/ TypeDecl \/ VarDeclBlock \/ ProcDecl \/ FuncDecl
    \/ BlockBegin \/ BlockEnd \/ AssignStmt \/ CallStmt \/ EmptyStmt
    \/ ForBegin \/ ForEnd \/ IfBegin \/ IfElse \/ IfEnd
    \/ CompoundBegin \/ CompoundEnd \/ WhileBegin \/ WhileEnd
    \/ NewStmt \/ DisposeStmt

-----------------------------------------------------------------------------
(* Specification of the compiler on freely read sources *)

\* the data segment: the stack, followed by the free store
DataSize == StackSize + HeapSize

\* a block of the free store
Block(a, n) == [addr |-> a, size |-> n]

\* the free store after construction: one free block; op, addr and prior are
\* its history: the latest operation ("round" for a DISPOSE of the address
\* returned by a NEW that immediately precedes it), the address the latest
\* NEW returned and the free list before that NEW
FreeStore ==
    [free |-> {Block(StackSize, HeapSize)}, used |-> {}, op |-> "none", addr |-> 0,
     prior |-> {}]

MachInit ==
    /\ pc = 0 /\ fp = 0 /\ sp = -1
    /\ stack = [a \in 0..(DataSize - 1) |-> I(0)]
    /\ heap = FreeStore
    /\ result = "none"
    /\ ncycles = 0
    /\ cstk = <<>>

CompInit ==
    /\ symtbl = builtins
    /\ code = <<>>
    /\ nErrors = 0
    /\ stk = <<>>
    /\ subs = <<>>
    /\ calls = {}
    /\ stores = {}
    /\ lk = {}
    /\ bins = {}
    /\ ctls = {}
    /\ idxs = {}
    /\ blts = {}
    /\ sels = {}
    /\ rngs = {}
    /\ nprod = 0

Init ==
    /\ phase = "compile" /\ argv = <<>> /\ cmdOk = TRUE /\ exitCode = -1
    /\ source = 0 /\ src = <<>> /\ free = TRUE
    /\ CompInit
    /\ MachInit

Next == CompileStep

Spec == Init /\ [][Next]_vars

-----------------------------------------------------------------------------
(* The P machine.  Its implementation is not among the sources at hand; the *)
(* instructions are modelled from their descriptions.                       *)

\* base(lvl): follow the FrameBase slot lvl times, starting at fp
RECURSIVE base(_, _, _)
base(stk0, b, lvl) == IF lvl = 0 THEN b ELSE base(stk0, stk0[b + FrameBase].v, lvl - 1)

M == [pc |-> pc, fp |-> fp, sp |-> sp, stack |-> stack, result |-> result, heap |-> heap]

push(m, d) ==
    IF m.sp + 1 >= StackSize THEN [m EXCEPT !.result = "stackOverflow"]
    ELSE [m EXCEPT !.sp = @ + 1, !.stack[m.sp + 1] = d]

\* the machine with n Datums discarded
drop(m, n) ==
    IF m.sp - n < -1 THEN [m EXCEPT !.result = "stackUnderflow"]
    ELSE [m EXCEPT !.sp = @ - n]

tos(m)  == m.stack[m.sp]
tos1(m) == m.stack[m.sp - 1]

toReal(d) == R(d.v)
kindOf(l, r) == IF l.kind = "Real" \/ r.kind = "Real" THEN "Real" ELSE "Integer"
bool(b) == I(IF b THEN 1 ELSE 0)

\* l op r
binop(op, l, r) ==
    CASE op = "ADD" -> [kind |-> kindOf(l, r), v |-> l.v + r.v]
      [] op = "SUB" -> [kind |-> kindOf(l, r), v |-> l.v - r.v]
      [] op = "MUL" -> [kind |-> kindOf(l, r), v |-> l.v * r.v]
      [] op = "LT"  -> bool(l.v < r.v)
      [] op = "LTE" -> bool(l.v <= r.v)
      [] op = "EQU" -> bool(l.v = r.v)
      [] op = "GTE" -> bool(l.v >= r.v)
      [] op = "GT"  -> bool(l.v > r.v)
      [] op = "NEQ" -> bool(l.v # r.v)

MachBinOps == {"ADD", "SUB", "MUL", "LT", "LTE", "EQU", "GTE", "GT", "NEQ"}
\* the arguments at which a function is known exactly, and its values there
RealPoints ==
    [ATAN |-> (0 :> 0), EXP |-> (0 :> 1), LOG |-> (1 :> 0), SIN |-> (0 :> 0),
     SQRT |-> (0 :> 0) @@ (1 :> 1) @@ (4 :> 2) @@ (9 :> 3)]

MachRealOps == {"ATAN", "EXP", "LOG", "SIN", "SQRT"}

MachOps == MachBinOps \cup MachRealOps \cup
           {"NEG", "ITOR", "ITOR2", "ROUND", "DUP", "POP", "PUSH", "PUSHVAR",
            "EVAL", "ASSIGN", "ENTER", "JUMP", "JNEQ", "LLIMIT", "ULIMIT",
            "NEW", "DISPOSE", "NOT", "PRED", "SUCC", "ABS", "ODD", "SQR", "TRUNC"}

\* the free blocks of a free list that hold n Datums
fits(fl, n) == {b \in fl : b.size >= n}

\* alloc(n): the first free block that holds n Datums gives its first n; the
\* address is 0 if there is none
alloc(fs, n) ==
    IF n < 1 \/ fits(fs.free, n) = {}
    THEN [fs EXCEPT !.op = "new", !.addr = 0, !.prior = fs.free]
    ELSE With(CHOOSE b \in fits(fs.free, n) : \A c \in fits(fs.free, n) : b.addr <= c.addr,
              LAMBDA b :
         [free  |-> (fs.free \ {b}) \cup
                    (IF b.size > n THEN {Block(b.addr + n, b.size - n)} ELSE {}),
          used  |-> fs.used \cup {Block(b.addr, n)},
          op    |-> "new", addr |-> b.addr, prior |-> fs.free])

\* adjacent free blocks joined
RECURSIVE coalesce(_)
coalesce(fl) ==
    IF \E b \in fl : \E c \in fl : b.addr + b.size = c.addr
    THEN With(CHOOSE p \in fl \X fl : p[1].addr + p[1].size = p[2].addr, LAMBDA p :
         coalesce((fl \ {p[1], p[2]}) \cup {Block(p[1].addr, p[1].size + p[2].size)}))
    ELSE fl

\* free(addr): the block allocated at that address returns to the free list;
\* ok is FALSE if no block is allocated there
dispose(fs, a) ==
    IF \A b \in fs.used : b.addr # a
    THEN [ok |-> FALSE, fs |-> [fs EXCEPT !.op = "dispose"]]
    ELSE With(CHOOSE b \in fs.used : b.addr = a, LAMBDA b :
         [ok |-> TRUE,
          fs |-> [fs EXCEPT !.free = coalesce(@ \cup {b}), !.used = @ \ {b},
                            !.op = IF fs.op = "new" /\ fs.addr = a THEN "round"
                                   ELSE "dispose"]])

\* EVAL k: the address a is popped and stack[a..a+k) pushed in order
eval(m, a, k) ==
    IF a < 0 \/ a + k > DataSize \/ m.sp - 1 + k >= StackSize
    THEN [m EXCEPT !.result = "stackOverflow"]
    ELSE [m EXCEPT !.sp = @ - 1 + k,
                   !.stack = [i \in DOMAIN @ |->
                                 IF i \in m.sp..(m.sp + k - 1) THEN @[a + i - m.sp]
                                 ELSE @[i]]]

\* ASSIGN k: the top k Datums are copied to stack[a..a+k), a being the
\* address below them; the value and the address are discarded
assign(m, a, k) ==
    IF a < 0 \/ a + k > DataSize THEN [m EXCEPT !.result = "stackOverflow"]
    ELSE [m EXCEPT !.sp = @ - k - 1,
                   !.stack = [i \in DOMAIN @ |->
                                 IF i \in a..(a + k - 1) THEN @[m.sp - k + 1 + i - a]
                                 ELSE @[i]]]

\* one instruction other than CALL, RET, RETF and HALT; m.pc is already advanced
execute(m, ir) ==
    CASE ir.op \in MachBinOps ->
            IF m.sp < 1 THEN [m EXCEPT !.result = "stackUnderflow"]
            ELSE [m EXCEPT !.sp = @ - 1, !.stack[m.sp - 1] = binop(ir.op, tos1(m), tos(m))]
      [] ir.op = "NEG"     -> [m EXCEPT !.stack[m.sp].v = -@]
      [] ir.op = "ITOR"    -> [m EXCEPT !.stack[m.sp] = toReal(@)]
      [] ir.op = "ITOR2"   -> [m EXCEPT !.stack[m.sp - 1] = toReal(@)]
      [] ir.op = "ROUND"   -> [m EXCEPT !.stack[m.sp] = I(@.v)]
      [] ir.op = "TRUNC"   -> [m EXCEPT !.stack[m.sp] = I(@.v)]
      [] ir.op = "ABS"     -> [m EXCEPT !.stack[m.sp].v = IF @ < 0 THEN -@ ELSE @]
      [] ir.op = "ODD"     -> [m EXCEPT !.stack[m.sp] = bool(@.v % 2 = 1)]
      [] ir.op = "SQR"     -> [m EXCEPT !.stack[m.sp].v = @ * @]
      [] ir.op \in MachRealOps ->
            IF tos(m).v \in DOMAIN RealPoints[ir.op]
            THEN [m EXCEPT !.stack[m.sp] = R(RealPoints[ir.op][tos(m).v])]
            ELSE [m EXCEPT !.result = "unknownInstr"]
      [] ir.op = "NOT"     -> [m EXCEPT !.stack[m.sp] = bool(@.v = 0)]
      [] ir.op = "PRED"    ->
            IF tos(m).v <= ir.addr.v THEN [m EXCEPT !.result = "outOfRange"]
            ELSE [m EXCEPT !.stack[m.sp].v = @ - 1]
      [] ir.op = "SUCC"    ->
            IF tos(m).v >= ir.addr.v THEN [m EXCEPT !.result = "outOfRange"]
            ELSE [m EXCEPT !.stack[m.sp].v = @ + 1]
      [] ir.op = "DUP"     -> push(m, tos(m))
      [] ir.op = "POP"     -> drop(m, ir.addr.v)
      [] ir.op = "PUSH"    -> push(m, ir.addr)
      [] ir.op = "PUSHVAR" -> push(m, I(base(m.stack, m.fp, ir.level) + ir.addr.v))
      [] ir.op = "NEW"     ->
            With(alloc(m.heap, tos(m).v), LAMBDA fs :
            [m EXCEPT !.heap = fs, !.stack[m.sp] = I(fs.addr)])
      [] ir.op = "DISPOSE" ->
            With(dispose(m.heap, tos(m).v), LAMBDA d :
            [m EXCEPT !.heap = d.fs, !.sp = @ - 1,
                      !.result = IF d.ok THEN @ ELSE "freeStoreError"])
      [] ir.op = "EVAL"    -> eval(m, tos(m).v, ir.addr.v)
      [] ir.op = "ASSIGN"  ->
            IF m.sp - ir.addr.v < 0 THEN [m EXCEPT !.result = "stackUnderflow"]
            ELSE assign(m, m.stack[m.sp - ir.addr.v].v, ir.addr.v)
      [] ir.op = "ENTER"   ->
            IF m.sp + ir.addr.v >= StackSize THEN [m EXCEPT !.result = "stackOverflow"]
            ELSE [m EXCEPT !.sp = @ + ir.addr.v]
      [] ir.op = "JUMP"    -> [m EXCEPT !.pc = ir.addr.v]
      [] ir.op = "JNEQ"    -> [m EXCEPT !.sp = @ - 1,
                                        !.pc = IF tos(m).v = 0 THEN ir.addr.v ELSE @]
      [] ir.op = "LLIMIT"  -> IF tos(m).v < ir.addr.v THEN [m EXCEPT !.result = "outOfRange"]
                              ELSE m
      [] ir.op = "ULIMIT"  -> IF tos(m).v > ir.addr.v THEN [m EXCEPT !.result = "outOfRange"]
                              ELSE m

\* CALL level, addr: push base(level), the old fp, the return address and a slot
\* for the return value; the new frame starts at the first of them
call(m, ir) ==
    IF m.sp + FrameSize >= StackSize THEN [m EXCEPT !.result = "stackOverflow"]
    ELSE [m EXCEPT !.stack[m.sp + 1 + FrameBase]    = I(base(m.stack, m.fp, ir.level)),
                   !.stack[m.sp + 1 + FrameOldFp]   = I(m.fp),
                   !.stack[m.sp + 1 + FrameRetAddr] = I(m.pc),
                   !.stack[m.sp + 1 + FrameRetVal]  = I(0),
                   !.sp = @ + FrameSize,
                   !.fp = m.sp + 1,
                   !.pc = ir.addr.v]

\* RET n, RETF n: discard the frame, restore pc and fp, pop n parameters;
\* RETF pushes the frame's return value
ret(m, ir) ==
    With([m EXCEPT !.sp = m.fp - 1 - ir.addr.v,
                   !.pc = m.stack[m.fp + FrameRetAddr].v,
                   !.fp = m.stack[m.fp + FrameOldFp].v], LAMBDA m1 :
    IF m1.sp < -1 THEN [m EXCEPT !.result = "stackUnderflow"]
    ELSE IF ir.op = "RETF" THEN push(m1, m.stack[m.fp + FrameRetVal])
    ELSE m1)

Running == phase = "run" /\ result = "none" /\ ncycles < MaxCycles

Fetched == pc \in 0..(Len(code) - 1)

ir == At(code, pc)

Load(m) ==
    /\ pc' = m.pc /\ fp' = m.fp /\ sp' = m.sp /\ stack' = m.stack /\ result' = m.result
    /\ heap' = m.heap
    /\ ncycles' = ncycles + 1

\* the subroutine a CALL at that address names
calleeAt(a) == IF a = 0 THEN 1 ELSE (CHOOSE c \in calls : c.at = a).sub

ExecCall ==
    /\ Running /\ Fetched /\ ir.op = "CALL"
    /\ \E m \in {call([M EXCEPT !.pc = pc + 1], ir)} :
        /\ Load(m)
        /\ cstk' = IF m.result = "none"
                   THEN Append(cstk, [at |-> pc, fp |-> fp, sp |-> sp, sub |-> calleeAt(pc)])
                   ELSE cstk
    /\ UNCHANGED <<phase, argv, source, cmdOk, exitCode, compVars>>

ExecRet ==
    /\ Running /\ Fetched /\ ir.op \in {"RET", "RETF"}
    /\ \E m \in {ret([M EXCEPT !.pc = pc + 1], ir)} :
        /\ Load(m)
        /\ cstk' = IF m.result = "none" /\ cstk # <<>>
                   THEN SubSeq(cstk, 1, Len(cstk) - 1) ELSE cstk
    /\ UNCHANGED <<phase, argv, source, cmdOk, exitCode, compVars>>

ExecHalt ==
    /\ Running /\ Fetched /\ ir.op = "HALT"
    /\ Load([M EXCEPT !.pc = pc + 1, !.result = "success"])
    /\ UNCHANGED <<phase, argv, source, cmdOk, exitCode, compVars, cstk>>

\* any other instruction, or none at pc
ExecOther ==
    /\ Running
    /\ IF Fetched
       THEN ir.op \in MachOps /\ Load(execute([M EXCEPT !.pc = pc + 1], ir))
       ELSE Load([M EXCEPT !.result = "badFetch"])
    /\ UNCHANGED <<phase, argv, source, cmdOk, exitCode, compVars, cstk>>

MachineStep == ExecCall \/ ExecRet \/ ExecHalt \/ ExecOther

-----------------------------------------------------------------------------
(* The driver.  An argument is the sequence of its characters.              *)

ArgHelp    == <<"-", "h", "e", "l", "p">>
ArgVerbose == <<"-", "v", "e", "r", "b", "o", "s", "e">>
ArgVersion == <<"-", "v", "e", "r", "s", "i", "o", "n">>

\* the switch over the characters of an option from the n-th on
RECURSIVE options(_, _)
options(arg, n) ==
    IF n > Len(arg) THEN TRUE
    ELSE IF arg[n] = "?" THEN FALSE
    ELSE IF arg[n] \in {"v", "V"} THEN options(arg, n + 1)
    ELSE FALSE

\* parseCommandline(args) from the n-th argument on
RECURSIVE parseCommandline(_, _)
parseCommandline(as, n) ==
    IF n > Len(as) THEN TRUE
    ELSE With(as[n], LAMBDA arg :
         IF arg = <<>> THEN parseCommandline(as, n + 1)
         ELSE IF arg = <<"-">> THEN parseCommandline(as, n + 1)
         ELSE IF arg = ArgHelp THEN FALSE
         ELSE IF arg = ArgVerbose THEN parseCommandline(as, n + 1)
         ELSE IF arg = ArgVersion THEN parseCommandline(as, n + 1)
         ELSE IF arg[1] = "-"
              THEN IF options(arg, 2) THEN parseCommandline(as, n + 1) ELSE FALSE
         ELSE parseCommandline(as, n + 1))

runsAlways(ok, n) == ok

\* main: is the machine started?
runs(ok, n) == ok /\ n = 0

returnedWithRuntime(ok, n, r) ==
    IF ~ok THEN 1 ELSE IF r \notin {"none", "success"} THEN n + 1 ELSE n

\* main: the value returned, ok being the result of parseCommandline, n the
\* count the compiler returned and r the result of the machine
returned(ok, n, r) == IF ~ok THEN 1 ELSE n

\* main up to the compilation
ParseCommandline ==
    /\ phase = "args"
    /\ cmdOk' = parseCommandline(argv, 1)
    /\ phase' = IF cmdOk' THEN "compile" ELSE "exit"
    /\ exitCode' = IF cmdOk' THEN exitCode ELSE returned(FALSE, nErrors, result)
    /\ UNCHANGED <<argv, source, compVars, machVars>>

\* main after the compilation: the machine is started, or main returns
Start ==
    /\ phase = "load"
    /\ IF runs(cmdOk, nErrors)
       THEN /\ phase' = "run"
            /\ pc' = 0 /\ fp' = 0 /\ sp' = -1
            /\ stack' = [a \in 0..(DataSize - 1) |-> I(0)]
            /\ result' = "none" /\ ncycles' = 0 /\ cstk' = <<>>
            /\ heap' = FreeStore
            /\ UNCHANGED exitCode
       ELSE /\ phase' = "exit"
            /\ exitCode' = returned(cmdOk, nErrors, result)
            /\ UNCHANGED machVars
    /\ UNCHANGED <<argv, source, cmdOk, compVars>>

\* main after the machine has stopped
Finish ==
    /\ phase = "run" /\ result # "none"
    /\ phase' = "exit"
    /\ exitCode' = returned(cmdOk, nErrors, result)
    /\ UNCHANGED <<argv, source, cmdOk, compVars, machVars>>

DriverStep == ParseCommandline \/ Start \/ Finish

-----------------------------------------------------------------------------
(* Specification of the driver on source texts *)

Construct(c) == [c |-> c]
Program(n)   == [c |-> "program", name |-> n]
Const(n, v)  == [c |-> "const", name |-> n, value |-> v]
Type(n, t)   == [c |-> "type", name |-> n, type |-> t]
Decl(i, t)   == [ids |-> i, type |-> t]
Var(d)       == [c |-> "var", decls |-> d]
Proc(n, p)   == [c |-> "procedure", name |-> n, paren |-> p # <<>>, params |-> p]
Func(n, p, t) == [c |-> "function", name |-> n, paren |-> p # <<>>, params |-> p, ret |-> t]
Assign(n, e) == [c |-> "assign", name |-> n, sel |-> <<>>, e |-> e]
AssignTo(n, s, e) == [c |-> "assign", name |-> n, sel |-> s, e |-> e]
New(n)       == [c |-> "new", name |-> n, sel |-> <<>>]
Dispose(e)   == [c |-> "dispose", e |-> e]
Call(n, a)   == [c |-> "call", name |-> n, paren |-> a # <<>>, args |-> a]
For(n, e1, d, e2) == [c |-> "for", name |-> n, e1 |-> e1, inc |-> d, e2 |-> e2]
If(e)        == [c |-> "if", e |-> e]
While(e)     == [c |-> "while", e |-> e]

\* program m; const t = 1; var x: integer;
\* function q(x: integer): integer;
\* begin if x <= 0 then q := 0 else q := q(x - 1) + 1 end;
\* begin x := q(t) end.
ProgRecursive ==
    <<Program("m"), Const("t", CInt(1, 1)), Var(<<Decl(<<"x">>, TName("integer"))>>),
      Func("q", <<Decl(<<"x">>, TName("integer"))>>, TName("integer")),
      Construct("begin"),
        If(Bin("LTE", Id("x"), Lit(0))), Assign("q", Lit(0)),
        Construct("else"),
        Assign("q", Bin("ADD", Fn("q", <<Bin("SUB", Id("x"), Lit(1))>>), Lit(1))),
      Construct("end"),
      Construct("begin"), Assign("x", Fn("q", <<Id("t")>>)), Construct("end")>>

\* program m; type t = 1..2; var x: t;
\* procedure p(x: integer); begin end;
\* procedure q; begin p(1) end;
\* begin for x := 1 to 2 do q end.
ProgProcedures ==
    <<Program("m"), Type("t", TRange(CInt(1, 1), CInt(1, 2))),
      Var(<<Decl(<<"x">>, TName("t"))>>),
      Proc("p", <<Decl(<<"x">>, TName("integer"))>>), Construct("begin"), Construct("end"),
      Proc("q", <<>>), Construct("begin"), Call("p", <<Lit(1)>>), Construct("end"),
      Construct("begin"), For("x", Lit(1), 1, Lit(2)), Call("q", <<>>), Construct("end")>>

\* program m; const c = 2.0; var x: integer; r: real;
\* begin r := 3; for x := 2 downto 1 do ; if r <= c then x := -1 end.
ProgDownto ==
    <<Program("m"), Const("c", CReal(1, 2)),
      Var(<<Decl(<<"x">>, TName("integer")), Decl(<<"r">>, TName("real"))>>),
      Construct("begin"), Assign("r", Lit(3)),
      For("x", Lit(2), -1, Lit(1)), Construct("skip"),
      If(Bin("LTE", Id("r"), Id("c"))), Assign("x", Neg(Lit(1))),
      Construct("end")>>

\* program m; const t = 2; var x: 1..t; begin x := 3 end.
ProgOutOfRange ==
    <<Program("m"), Const("t", CInt(1, 2)),
      Var(<<Decl(<<"x">>, TRange(CInt(1, 1), CId(1, "t")))>>),
      Construct("begin"), Assign("x", Lit(3)), Construct("end")>>

\* program m; var x, x: integer; begin x := 1 end.
ProgRedefined ==
    <<Program("m"), Var(<<Decl(<<"x", "x">>, TName("integer"))>>),
      Construct("begin"), Assign("x", Lit(1)), Construct("end")>>

\* program m; var x: ; begin end.
ProgNoType ==
    <<Program("m"), Var(<<Decl(<<"x">>, TNone)>>), Construct("begin"), Construct("end")>>

\* program m; var x, y, z: integer;
\* begin if 3 > 2 then x := 1 else x := 2;
\*       if 2 > 3 then y := 1;
\*       if 2 > 3 then z := 1 else z := 2 end.
ProgIf ==
    <<Program("m"), Var(<<Decl(<<"x", "y", "z">>, TName("integer"))>>),
      Construct("begin"),
      If(Bin("GT", Lit(3), Lit(2))), Assign("x", Lit(1)), Construct("else"),
        Assign("x", Lit(2)),
      If(Bin("GT", Lit(2), Lit(3))), Assign("y", Lit(1)),
      If(Bin("GT", Lit(2), Lit(3))), Assign("z", Lit(1)), Construct("else"),
        Assign("z", Lit(2)),
      Construct("end")>>

\* program m; var i, s: integer;
\* begin i := 1; s := 0; while i <= 10 do begin s := s + i; i := i + 1 end end.
ProgWhile ==
    <<Program("m"), Var(<<Decl(<<"i", "s">>, TName("integer"))>>),
      Construct("begin"), Assign("i", Lit(1)), Assign("s", Lit(0)),
      While(Bin("LTE", Id("i"), Lit(10))), Construct("begin"),
        Assign("s", Bin("ADD", Id("s"), Id("i"))),
        Assign("i", Bin("ADD", Id("i"), Lit(1))),
      Construct("end"),
      Construct("end")>>

\* program m; var p: ^integer; q: integer;
\* begin new(p); p^ := 42; q := p^; dispose(p) end.
ProgHeap ==
    <<Program("m"), Var(<<Decl(<<"p">>, TPtr(TName("integer"))),
                          Decl(<<"q">>, TName("integer"))>>),
      Construct("begin"), New("p"), AssignTo("p", <<Caret>>, Lit(42)),
      Assign("q", Sel("p", <<Caret>>)), Dispose(Id("p")),
      Construct("end")>>

\* program m; var p, q, r: ^integer;
\* begin new(p); new(q); dispose(q); new(q); dispose(p); new(r); dispose(r) end.
ProgHeapHole ==
    <<Program("m"), Var(<<Decl(<<"p", "q", "r">>, TPtr(TName("integer")))>>),
      Construct("begin"), New("p"), New("q"), Dispose(Id("q")), New("q"),
      Dispose(Id("p")), New("r"), Dispose(Id("r")),
      Construct("end")>>

\* program m; var result: integer;
\* function factorial(n: integer): integer;
\* var p: integer;
\* begin p := 1; while n > 0 do begin p := p * n; n := n - 1 end; factorial := p end;
\* begin result := factorial(10) end.
ProgFactorial ==
    <<Program("m"), Var(<<Decl(<<"result">>, TName("integer"))>>),
      Func("factorial", <<Decl(<<"n">>, TName("integer"))>>, TName("integer")),
      Var(<<Decl(<<"p">>, TName("integer"))>>),
      Construct("begin"), Assign("p", Lit(1)),
        While(Bin("GT", Id("n"), Lit(0))), Construct("begin"),
          Assign("p", Bin("MUL", Id("p"), Id("n"))),
          Assign("n", Bin("SUB", Id("n"), Lit(1))),
        Construct("end"),
        Assign("factorial", Id("p")),
      Construct("end"),
      Construct("begin"), Assign("result", Fn("factorial", <<Lit(10)>>)),
      Construct("end")>>

\* program m; var x: integer;
\* function fib(n: integer): integer;
\* begin if n < 2 then fib := n else fib := fib(n - 1) + fib(n - 2) end;
\* begin x := fib(10) end.
ProgFib ==
    <<Program("m"), Var(<<Decl(<<"x">>, TName("integer"))>>),
      Func("fib", <<Decl(<<"n">>, TName("integer"))>>, TName("integer")),
      Construct("begin"),
        If(Bin("LT", Id("n"), Lit(2))), Assign("fib", Id("n")),
        Construct("else"),
        Assign("fib", Bin("ADD", Fn("fib", <<Bin("SUB", Id("n"), Lit(1))>>),
                                 Fn("fib", <<Bin("SUB", Id("n"), Lit(2))>>))),
      Construct("end"),
      Construct("begin"), Assign("x", Fn("fib", <<Lit(10)>>)), Construct("end")>>

\* program m; var x: integer;
\* function f: integer;
\*   procedure p; begin f := 5 end;
\* begin f := 1; p end;
\* begin x := f end.
ProgResultNested ==
    <<Program("m"), Var(<<Decl(<<"x">>, TName("integer"))>>),
      Func("f", <<>>, TName("integer")),
        Proc("p", <<>>), Construct("begin"), Assign("f", Lit(5)), Construct("end"),
      Construct("begin"), Assign("f", Lit(1)), Call("p", <<>>), Construct("end"),
      Construct("begin"), Assign("x", Id("f")), Construct("end")>>

\* program m; type a = array [0..1] of integer; var v, w: a; x: integer;
\* procedure p(y: a); begin end;
\* begin x := 1; w := v; p(v); x := 2 end.
ProgArrayParam ==
    <<Program("m"), Type("a", TArray(TRange(CInt(1, 0), CInt(1, 1)), TName("integer"))),
      Var(<<Decl(<<"v", "w">>, TName("a")), Decl(<<"x">>, TName("integer"))>>),
      Proc("p", <<Decl(<<"y">>, TName("a"))>>), Construct("begin"), Construct("end"),
      Construct("begin"), Assign("x", Lit(1)), Assign("w", Id("v")),
      Call("p", <<Id("v")>>), Assign("x", Lit(2)), Construct("end")>>

\* program m; type e = array [0..1] of integer;
\* var a: array [1..2] of e; z: integer;
\* begin z := 5; a[2][1] := 7 end.
ProgArray ==
    <<Program("m"), Type("e", TArray(TRange(CInt(1, 0), CInt(1, 1)), TName("integer"))),
      Var(<<Decl(<<"a">>, TArray(TRange(CInt(1, 1), CInt(1, 2)), TName("e"))),
            Decl(<<"z">>, TName("integer"))>>),
      Construct("begin"), Assign("z", Lit(5)),
      AssignTo("a", <<Index(Lit(2)), Index(Lit(1))>>, Lit(7)), Construct("end")>>

\* program m; var x: integer;
\* procedure p(a, b: integer; c: integer); begin x := a - c end;
\* function f(a: integer; b: integer): integer; begin f := a - b end;
\* begin p(7, 1, 2); x := x + f(10, 4) end.
ProgParams ==
    <<Program("m"), Var(<<Decl(<<"x">>, TName("integer"))>>),
      Proc("p", <<Decl(<<"a", "b">>, TName("integer")), Decl(<<"c">>, TName("integer"))>>),
      Construct("begin"), Assign("x", Bin("SUB", Id("a"), Id("c"))), Construct("end"),
      Func("f", <<Decl(<<"a">>, TName("integer")), Decl(<<"b">>, TName("integer"))>>,
           TName("integer")),
      Construct("begin"), Assign("f", Bin("SUB", Id("a"), Id("b"))), Construct("end"),
      Construct("begin"), Call("p", <<Lit(7), Lit(1), Lit(2)>>),
      Assign("x", Bin("ADD", Id("x"), Fn("f", <<Lit(10), Lit(4)>>))), Construct("end")>>

\* program m; type t = record a, b: integer end;
\* var x: integer; r: t; begin x := 1 end.
ProgRecordType ==
    <<Program("m"),
      Type("t", TRec(<<Decl(<<"a", "b">>, TName("integer"))>>)),
      Var(<<Decl(<<"x">>, TName("integer")), Decl(<<"r">>, TName("t"))>>),
      Construct("begin"), Assign("x", Lit(1)), Construct("end")>>

\* program m; var i: integer; y: real; begin i := 4; y := sqrt(i) end.
ProgSqrt ==
    <<Program("m"),
      Var(<<Decl(<<"i">>, TName("integer")), Decl(<<"y">>, TName("real"))>>),
      Construct("begin"), Assign("i", Lit(4)),
      Assign("y", Builtin("SQRT", Id("i"))), Construct("end")>>

\* program m; var k: 1..3; y: real;
\* begin k := 1; k := succ(k); k := pred(k); k := pred(k); y := pred(y) end.
ProgPred ==
    <<Program("m"),
      Var(<<Decl(<<"k">>, TRange(CInt(1, 1), CInt(1, 3))), Decl(<<"y">>, TName("real"))>>),
      Construct("begin"), Assign("k", Lit(1)),
      Assign("k", Builtin("SUCC", Id("k"))), Assign("k", Builtin("PRED", Id("k"))),
      Assign("k", Builtin("PRED", Id("k"))), Assign("y", Builtin("PRED", Id("y"))),
      Construct("end")>>

\* program m; var i, b: integer; begin i := 4; b := 7; b := not (i = 4) end.
ProgNot ==
    <<Program("m"), Var(<<Decl(<<"i", "b">>, TName("integer"))>>),
      Construct("begin"), Assign("i", Lit(4)), Assign("b", Lit(7)),
      Assign("b", Not(Bin("EQU", Id("i"), Lit(4)))), Construct("end")>>

\* program m; type a = array [0..1] of integer;
\* var p: ^a; q: ^integer; x: integer;
\* begin new(p); new(q); p^[1] := 7; q^ := 9; x := p^[1] end.
ProgNewArray ==
    <<Program("m"),
      Type("a", TArray(TRange(CInt(1, 0), CInt(1, 1)), TName("integer"))),
      Var(<<Decl(<<"p">>, TPtr(TName("a"))), Decl(<<"q">>, TPtr(TName("integer"))),
            Decl(<<"x">>, TName("integer"))>>),
      Construct("begin"), New("p"), New("q"),
      AssignTo("p", <<Caret, Index(Lit(1))>>, Lit(7)), AssignTo("q", <<Caret>>, Lit(9)),
      Assign("x", Sel("p", <<Caret, Index(Lit(1))>>)), Construct("end")>>

\* program m;
\* type t = record a: integer; b: array [0..1] of integer; c: integer end;
\* var r: t; x: integer;
\* begin r.a := 1; r.c := 3; r.b[1] := 2; x := r.c + r.a end.
ProgRecord ==
    <<Program("m"),
      Type("t", TRec(<<Decl(<<"a">>, TName("integer")),
                       Decl(<<"b">>, TArray(TRange(CInt(1, 0), CInt(1, 1)),
                                            TName("integer"))),
                       Decl(<<"c">>, TName("integer"))>>)),
      Var(<<Decl(<<"r">>, TName("t")), Decl(<<"x">>, TName("integer"))>>),
      Construct("begin"), AssignTo("r", <<Field("a")>>, Lit(1)),
      AssignTo("r", <<Field("c")>>, Lit(3)),
      AssignTo("r", <<Field("b"), Index(Lit(1))>>, Lit(2)),
      Assign("x", Bin("ADD", Sel("r", <<Field("c")>>), Sel("r", <<Field("a")>>))),
      Construct("end")>>

\* program m; type t = record a, b: integer end;
\* var r: t; x, y: integer; s: t;
\* begin x := 5; y := 6; s := r.z end.
ProgNoField ==
    <<Program("m"),
      Type("t", TRec(<<Decl(<<"a", "b">>, TName("integer"))>>)),
      Var(<<Decl(<<"r">>, TName("t")), Decl(<<"x", "y">>, TName("integer")),
            Decl(<<"s">>, TName("t"))>>),
      Construct("begin"), Assign("x", Lit(5)), Assign("y", Lit(6)),
      Assign("s", Sel("r", <<Field("z")>>)), Construct("end")>>

\* program m; type t = 3.0..1; u = 3..1; v = 1.0..3;
\* var x: integer; begin x := 1 end.
ProgRanges ==
    <<Program("m"),
      Type("t", TRange(CReal(1, 3), CInt(1, 1))),
      Type("u", TRange(CInt(1, 3), CInt(1, 1))),
      Type("v", TRange(CReal(1, 1), CInt(1, 3))),
      Var(<<Decl(<<"x">>, TName("integer"))>>),
      Construct("begin"), Assign("x", Lit(1)), Construct("end")>>

\* program m; type b = array [1..2, 0..2, 0..1] of integer;
\* a = array [1..2, 0..2] of integer; var x: integer; begin x := 1 end.
ProgMatrix ==
    <<Program("m"),
      Type("b", TArrays(<<TRange(CInt(1, 1), CInt(1, 2)), TRange(CInt(1, 0), CInt(1, 2)),
                          TRange(CInt(1, 0), CInt(1, 1))>>, TName("integer"))),
      Type("a", TArrays(<<TRange(CInt(1, 1), CInt(1, 2)), TRange(CInt(1, 0), CInt(1, 2))>>,
                        TName("integer"))),
      Var(<<Decl(<<"x">>, TName("integer"))>>),
      Construct("begin"), Assign("x", Lit(1)), Construct("end")>>

Programs == <<ProgRecursive, ProgProcedures, ProgDownto, ProgOutOfRange, ProgRedefined,
              ProgNoType, ProgIf, ProgWhile, ProgHeap, ProgHeapHole, ProgFactorial,
              ProgFib, ProgResultNested, ProgArrayParam, ProgArray, ProgParams, ProgRecordType, ProgSqrt, ProgPred, ProgNot, ProgNewArray, ProgRecord, ProgNoField, ProgRanges, ProgMatrix>>

\* is p the text in the input file?
IsSource(p) == source > 0 /\ Programs[source] = p

\* has the machine run the program to its HALT?
Ran == phase = "exit" /\ cmdOk /\ result = "success"

\* the n-th variable of the main block, after the run
global(n) == stack[FrameSize + n].v

\* p, p -v file, p -verbose -, p -x, p -help, p -v?
ArgLists == <<<<>>, <<<<"-", "v">>, <<"f">>>>, <<ArgVerbose, <<"-">>>>, <<<<"-", "x">>>>,
              <<ArgHelp>>, <<<<"-", "v", "?">>>>>>

InitRun ==
    /\ phase = "args" /\ cmdOk = FALSE /\ exitCode = -1
    /\ \E i \in 1..Len(ArgLists) : argv = ArgLists[i]
    /\ \E i \in 1..Len(Programs) : source = i /\ src = Programs[i]
    /\ free = FALSE
    /\ CompInit
    /\ MachInit

NextRun == DriverStep \/ CompileStep \/ MachineStep

SpecRun == InitRun /\ [][NextRun]_vars

-----------------------------------------------------------------------------
(* Properties of the compiler *)

Compiled == phase \notin {"compile", "crash"}

\* is t an ordinal type of less than the whole range?
limited(t) == isOrdinal(t) /\ t.range # maxRange

\* C1: every store the compiler emits to a target of an ordinal type with a range
\* min..max short of the whole range is preceded by LLIMIT min; ULIMIT max
C1_StoresLimited ==
    \A s \in stores :
        limited(s.type) =>
            /\ s.at >= 2
            /\ At(code, s.at - 2) = Instr("LLIMIT", 0, I(s.type.range.min))
            /\ At(code, s.at - 1) = Instr("ULIMIT", 0, I(s.type.range.max))

\* C10: the test at the head of a for loop is <= for "to" and >= for "downto"
C10_ForTest ==
    \A i \in 1..Len(stk) :
        stk[i].f = "for" =>
            /\ At(code, stk[i].jmp_pc - 1).op = (IF stk[i].inc = 1 THEN "LTE" ELSE "GTE")
            /\ At(code, stk[i].jmp_pc).op = "JNEQ"

mainSub == subs[1]

\* C3: a program compiled without errors starts with CALL, HALT, and the CALL's
\* address is the entry of the main block: its ENTER, or without locals the first
\* instruction of its statement part; never an address inside a nested subroutine
C3_MainEntry ==
    (Compiled /\ nErrors = 0) =>
        /\ At(code, 0).op = "CALL"
        /\ At(code, 1).op = "HALT"
        /\ LET a == At(code, 0).addr.v IN
           /\ IF mainSub.dx > 0
              THEN a = mainSub.body - 1 /\ At(code, a) = Instr("ENTER", 0, I(mainSub.dx))
              ELSE a = mainSub.body
           /\ \A k \in 2..Len(subs) : ~(subs[k].lo <= a /\ a <= subs[k].hi)

\* a program with nested subroutines and locals of its own has been compiled
C3_Witness ==
    /\ Compiled /\ nErrors = 0
    /\ Len(subs) > 1
    /\ mainSub.dx > 0
    /\ At(code, 0).addr.v > 3

\* C5: the symbol table never holds two entries of one name at one level
C5_OneEntryPerNameAndLevel ==
    \A i, j \in 1..Len(symtbl) :
        (symtbl[i].name = symtbl[j].name /\ symtbl[i].val.level = symtbl[j].val.level)
            => i = j

\* C6: leaving a block at level L leaves no entry of level L, and the entries
\* below L are those of the block's entry, but for the address of its subroutine
C6_Purge ==
    [][(Compiling /\ Top.f = "block" /\ Top.stage = 4 /\ Len(stk') < Len(stk)) =>
         LET L   == Top.level
             old == SelectSeq(Top.snap, LAMBDA e : e.val.level < L)
             new == SelectSeq(symtbl', LAMBDA e : e.val.level < L)
         IN  /\ \A i \in 1..Len(symtbl') : symtbl'[i].val.level # L
             /\ Len(new) = Len(old)
             /\ \A i \in 1..Len(new) :
                  \/ new[i] = old[i]
                  \/ /\ old[i].id = Top.sub
                     /\ new[i] = [old[i] EXCEPT !.val.value = new[i].val.value]]_vars

\* a block at level 1 that has declared names of its own has been left
C6_Witness ==
    /\ Compiling /\ Top.f = "block" /\ Top.level = 0 /\ Top.stage = 3
    /\ \E k \in 2..Len(subs) : subs[k].hi >= 0 /\ (subs[k].dx > 0 \/ subs[k].nparams > 0)
    /\ Len(symtbl) > Len(builtins) + 1

\* C7: an identifier resolves to an entry whose level does not exceed the level
\* of the block being compiled
C7_LookupWithinLevel ==
    \A r \in lk : r.found <= r.cur

\* C8: in the final code every CALL names the entry address of its subroutine,
\* with the level difference of caller and callee
C8_CallOperands ==
    (Compiled /\ nErrors = 0) =>
        \A c \in calls :
            /\ At(code, c.at).op = "CALL"
            /\ At(code, c.at).addr.v = subs[c.sub].entry
            /\ At(code, c.at).level = c.from - subs[c.sub].level

\* C9: a binary operator of operands of one kind is preceded by no conversion;
\* of (Integer, Real) by one ITOR2 and of (Real, Integer) by one ITOR, with a
\* Real result; any other combination is reported
C9_Promotion ==
    \A b \in bins :
        /\ At(code, b.at).op \in BinOps
        /\ CASE b.l = b.r -> b.at = b.rend /\ ~b.err /\ b.res = b.l
             [] b.l = "Integer" /\ b.r = "Real" ->
                    /\ b.at = b.rend + 1 /\ At(code, b.rend).op = "ITOR2"
                    /\ b.res = "Real" /\ ~b.err
             [] b.l = "Real" /\ b.r = "Integer" ->
                    /\ b.at = b.rend + 1 /\ At(code, b.rend).op = "ITOR"
                    /\ b.res = "Real" /\ ~b.err
             [] OTHER -> b.err /\ b.at = b.rend

\* both promotions have been compiled
C9_Witness ==
    /\ \E b \in bins : b.l = "Integer" /\ b.r = "Real" /\ At(code, b.rend).op = "ITOR2"
    /\ \E b \in bins : b.l = "Real" /\ b.r = "Integer" /\ At(code, b.rend).op = "ITOR"

-----------------------------------------------------------------------------
(* Properties of the driver and the machine *)

\* C2: a return restores fp to its value before the matching CALL and pc to the
\* instruction after it, and leaves sp at its value before the CALL less the
\* declared parameters of the subroutine, plus one for a function's result
C2_CallReturn ==
    [][Len(cstk') < Len(cstk) =>
         LET c == cstk[Len(cstk)]
         IN  /\ fp' = c.fp
             /\ pc' = c.at + 1
             /\ sp' = c.sp - subs[c.sub].nparams
                           + (IF subs[c.sub].kind = "Function" THEN 1 ELSE 0)]_vars

\* a recursive call of a subroutine with parameters has returned
C2_Witness ==
    /\ phase = "run" /\ result = "none"
    /\ Len(cstk) >= 2
    /\ \E c \in calls :
        /\ c.at + 1 = pc
        /\ c.sub = cstk[Len(cstk)].sub
        /\ c.from = subs[c.sub].level + 1
        /\ subs[c.sub].nparams > 0

\* C4: the machine runs only after the command line was parsed and the
\* compilation counted no error
C4_RunsOnlyWithoutErrors ==
    (phase = "run" \/ ncycles > 0 \/ result # "none") => (cmdOk /\ nErrors = 0)

\* main has returned after a compilation that counted errors
C4_Witness ==
    phase = "exit" /\ cmdOk /\ nErrors > 0 /\ code # <<>> /\ ncycles = 0

\* C11: the assignment of a Real r-value to an Integer target emits ROUND
\* directly after the r-value and its report does not count as an error
C11_RoundIsWarning ==
    \A s \in stores :
        (isAnInteger(s.type) /\ s.rhs = "Real") =>
            /\ At(code, s.rend).op = "ROUND"
            /\ s.err = 0

\* C12: every call whose number of actual parameters differs from the number
\* of formal parameters of the subroutine it names is reported
C12_ArityReported ==
    \A c \in calls : c.nactual # c.nformal => c.reported

\* C13: no error is fatal: the compilation is never cut short, it proceeds to
\* the end of the program production and returns its count
C13_NoFatalError ==
    phase # "crash"

C15_IfPatched ==
    /\ \A c \in ctls :
         c.k = "if" =>
            /\ At(code, c.jmp_pc).op = "JNEQ"
            /\ IF c.else_pc >= 0
               THEN /\ At(code, c.jmp_pc).addr.v = c.else_pc + 1
                    /\ At(code, c.else_pc) = Instr("JUMP", 0, I(c.end))
               ELSE At(code, c.jmp_pc).addr.v = c.end
    /\ (IsSource(ProgIf) /\ phase = "exit" /\ cmdOk) =>
            /\ result = "success"
            /\ global(0) = 1 /\ global(1) = 0 /\ global(2) = 2

\* the program of if statements has been run
C15_Witness ==
    /\ IsSource(ProgIf) /\ Ran
    /\ \E c \in ctls : c.k = "if" /\ c.else_pc >= 0
    /\ \E c \in ctls : c.k = "if" /\ c.else_pc < 0

\* C16: the JUMP emitted after the statement of a while loop targets the first
\* instruction of the condition, and the JNEQ after the condition is patched to
\* the instruction that follows that JUMP; so the statement is repeated while
\* the condition is true and the loop is left the first time it is false
C16_WhilePatched ==
    /\ \A c \in ctls :
         c.k = "while" =>
            /\ At(code, c.end - 1) = Instr("JUMP", 0, I(c.cond_pc))
            /\ At(code, c.jmp_pc) = Instr("JNEQ", 0, I(c.end))
            /\ c.cond_pc < c.jmp_pc /\ c.jmp_pc < c.end - 1
    /\ (IsSource(ProgWhile) /\ phase = "exit" /\ cmdOk) =>
            /\ result = "success"
            /\ global(0) = 11 /\ global(1) = 55

\* the program that sums 1..10 in a while loop has been run
C16_Witness ==
    /\ IsSource(ProgWhile) /\ Ran
    /\ \E c \in ctls : c.k = "while"

\* C17: a DISPOSE of the address returned by the NEW that immediately precedes
\* it among the operations of the free store leaves the free list as it was
\* before that NEW; new(p); p^ := 42; q := p^; dispose(p) ends with q = 42
\* and the free list of a fresh free store
C17_NewDispose ==
    /\ heap.op = "round" => heap.free = heap.prior
    /\ (IsSource(ProgHeap) /\ phase = "exit" /\ cmdOk) =>
            /\ result = "success"
            /\ global(1) = 42
            /\ heap.free = FreeStore.free /\ heap.used = {}

\* a block has been allocated from a free list with a hole and disposed of at
\* once, and the program of the claim has been run
C17_Witness ==
    \/ /\ IsSource(ProgHeapHole) /\ heap.op = "round"
       /\ Cardinality(heap.free) = 2 /\ heap.used # {} /\ heap.addr = StackSize
    \/ IsSource(ProgHeap) /\ Ran /\ heap.op = "round"

\* C18: a call of a function as a factor leaves the value most recently
\* assigned to the function's name inside its body: factorial(10) by iterative
\* multiplication gives 3628800, the recursive fib(10) gives 55, and a
\* function whose name is last assigned 5 by a procedure nested in its body
\* gives 5
C18_FunctionResult ==
    (phase = "exit" /\ cmdOk) =>
        /\ IsSource(ProgFactorial) => (result = "success" /\ global(0) = 3628800)
        /\ IsSource(ProgFib) => (result = "success" /\ global(0) = 55)
        /\ IsSource(ProgResultNested) => (result = "success" /\ global(0) = 5)

\* C19: every statement is stack-neutral: where a compiled statement starts
\* and where it ends, sp is at the top of what the block and the enclosing for
\* statements keep above the frame, whatever the sizes of the values assigned
\* and of the actual parameters
C19_StackNeutral ==
    (phase = "run" /\ result = "none") =>
        \A c \in ctls :
            (pc = c.end \/ (c.k = "stmt" /\ pc = c.cond_pc)) =>
                sp = fp + FrameSize - 1 + c.depth

\* the machine after the instructions at the addresses a..b-1, run in a row
RECURSIVE straight(_, _, _)
straight(m, a, b) ==
    IF a >= b \/ m.result # "none" THEN m
    ELSE straight(execute([m EXCEPT !.pc = a + 1], At(code, a)), a + 1, b)

\* what the code emitted between an index expression and its ADD makes of
\* the index i
offset(x, i) ==
    straight(push([pc |-> 0, fp |-> 0, sp |-> -1,
                   stack |-> [a \in 0..(DataSize - 1) |-> I(0)],
                   result |-> "none", heap |-> FreeStore], I(i)), x.from, x.at)

\* C20: the code emitted for an index i into an array with the index bounds
\* lo..hi and elements of s Datums adds (i - lo) * s to the address of the
\* array, for every i in lo..hi, so that the element lies within the array;
\* an assignment to the last element of an array leaves the variable declared
\* after the array as it was
C20_ArrayElement ==
    /\ \A x \in idxs :
         ~x.err => \A i \in x.lo..x.hi :
                     /\ offset(x, i).result = "none"
                     /\ offset(x, i).sp = 0
                     /\ tos(offset(x, i)).v = (i - x.lo) * x.size
    /\ (IsSource(ProgArray) /\ phase = "exit" /\ cmdOk) =>
            /\ result = "success"
            /\ global(3) = 7 /\ global(4) = 5


-----------------------------------------------------------------------------
(* Properties of the layout of parameters and locals *)

\* the places in the symbol table of the Variable entries of level l whose
\* offset is negative (formal parameters) or not (locals)
entriesAt(l, neg) ==
    {i \in 1..Len(symtbl) : /\ symtbl[i].val.kind = "Variable"
                            /\ symtbl[i].val.level = l
                            /\ (symtbl[i].val.value.v < 0) = neg}

\* the sum of the sizes of the types ts[j..Len(ts)]
RECURSIVE sizesFrom(_, _)
sizesFrom(ts, j) == IF j > Len(ts) THEN 0 ELSE ts[j].size + sizesFrom(ts, j + 1)

\* C21: while the block of a subroutine declared at level L is compiled, its
\* formal parameters are the Variable entries of level L+1 with negative
\* offsets, in source order: the j-th of n parameters of one Datum has the
\* offset -(n - j + 1), consecutive parameters follow each other without
\* overlap; the operand of the block's RET or RETF is the number of
\* parameters; a call then reads each actual parameter through its formal
C21_Params ==
    /\ \A k \in 1..Len(stk) :
         (phase = "compile" /\ stk[k].f = "block" /\ stk[k].level >= 1) =>
            With(symtbl[stk[k].val].val.params, LAMBDA ps :
            With(entriesAt(stk[k].level, TRUE), LAMBDA es :
            /\ symtbl[stk[k].val].val.level = stk[k].level - 1
            /\ Cardinality(es) = Len(ps)
            /\ \A i \in es :
                 With(Cardinality({h \in es : h <= i}), LAMBDA j :
                 /\ symtbl[i].val.type = ps[j]
                 /\ symtbl[i].val.value.v = -sizesFrom(ps, j)
                 /\ (\A m \in 1..Len(ps) : ps[m].size = 1) =>
                        symtbl[i].val.value.v = -(Len(ps) - j + 1))))
    /\ \A n \in 1..Len(subs) :
         subs[n].hi >= 0 =>
            /\ At(code, subs[n].hi).op = (IF subs[n].kind = "Function" THEN "RETF" ELSE "RET")
            /\ At(code, subs[n].hi).addr.v = subs[n].nparams
    /\ (IsSource(ProgParams) /\ phase = "exit" /\ cmdOk) =>
            (result = "success" /\ global(0) = 11)

\* the block of a procedure with three parameters is being compiled, and the
\* program that calls it has been run
C21_Witness ==
    \/ /\ IsSource(ProgParams) /\ phase = "compile" /\ Len(stk) = 2
       /\ Len(symtbl[Top.val].val.params) = 3
       /\ Cardinality(entriesAt(Level, TRUE)) = 3
    \/ IsSource(ProgParams) /\ Ran /\ \E n \in 1..Len(subs) : subs[n].nparams = 3


\* the Variable entries of level l that are not parameters, in table order
localsAt(l) ==
    SelectSeq(symtbl, LAMBDA e : e.val.kind = "Variable" /\ e.val.level = l
                                 /\ e.val.value.v >= 0)

\* the sum of the sizes of the entries es[1..n]
RECURSIVE entrySizes(_, _)
entrySizes(es, n) == IF n = 0 THEN 0 ELSE entrySizes(es, n - 1) + es[n].val.type.size

\* do the Datums of the entries a and b overlap?
overlap(a, b) ==
    /\ a.val.value.v < b.val.value.v + b.val.type.size
    /\ b.val.value.v < a.val.value.v + a.val.type.size

\* the entries es lie one after the other from offset 0 on, in table order
RECURSIVE packed(_, _)
packed(es, n) ==
    n = 0 \/ (packed(es, n - 1) /\ es[n].val.value.v = entrySizes(es, n - 1))

\* C22: the Variable entries of a block's level that are not parameters,
\* those made for the fields of a record type included, lie at consecutive
\* offsets in declaration order, each of the size of its type, and no two of
\* them overlap; the block's ENTER has their total size as its operand and
\* is emitted exactly when that total is more than 0
C22_LocalsPacked ==
    \A k \in 1..Len(stk) :
        (phase = "compile" /\ stk[k].f = "block" /\ stk[k].stage >= 2) =>
            With(localsAt(stk[k].level), LAMBDA es :
            /\ packed(es, Len(es))
            /\ \A i, j \in 1..Len(es) : i < j => ~overlap(es[i], es[j])
            /\ stk[k].stage >= 4 =>
                 /\ entrySizes(es, Len(es)) > 0 =>
                        At(code, stk[k].addr) = Instr("ENTER", 0, I(entrySizes(es, Len(es))))
                 /\ entrySizes(es, Len(es)) = 0 =>
                        (stk[k].addr < Len(code) => At(code, stk[k].addr).op # "ENTER"))


-----------------------------------------------------------------------------
(* Properties of the built-in functions and of not *)

\* C23: for atan, exp, log, sin and sqrt of an argument of type Integer the
\* compiler emits ITOR after the code of the argument and before the
\* function's instruction, and the type of the call is Real
C23_IntegerArgConverted ==
    \A b \in blts :
        (b.f \in {"ATAN", "EXP", "LOG", "SIN", "SQRT"} /\ b.arg.tclass = "Integer") =>
            /\ b.type = realDesc
            /\ b.at = b.hi + 1
            /\ At(code, b.hi).op = "ITOR"
            /\ At(code, b.at).op = b.f


\* C24: pred and succ report an argument that is not of an ordinal type (the
\* count of errors grows) and accept one that is; PRED is emitted with the
\* minimum and SUCC with the maximum of the argument's type as immediate, so
\* that pred(min) and succ(max) end the run with OutOfRange
C24_PredSucc ==
    /\ \A b \in blts :
         b.f \in {"PRED", "SUCC"} =>
            /\ b.err = ~isOrdinal(b.arg)
            /\ At(code, b.at) = Instr(b.f, 0, I(IF b.f = "PRED" THEN b.arg.range.min
                                                 ELSE b.arg.range.max))
    /\ (IsSource(ProgPred) /\ phase = "exit" /\ cmdOk) => result = "outOfRange"


\* C25: for `not f` the code of the operand f is emitted before the
\* instruction of the logical not, which leaves one Datum on the stack, the
\* negation of the operand's value: b := not (i = 4) with i = 4 stores 0 in b
\* and changes nothing else
C25_NotAfterOperand ==
    /\ \A b \in blts :
         b.f = "NOT" => (b.lo <= b.hi /\ b.hi <= b.at /\ At(code, b.at).op = "NOT")
    /\ (IsSource(ProgNot) /\ phase = "exit" /\ cmdOk) =>
            (result = "success" /\ global(0) = 4 /\ global(1) = 0
             /\ stack[0] = I(0))


-----------------------------------------------------------------------------
(* Properties of new, of record selectors and of the types built *)

\* C26: new(p) with p a pointer to T pushes the size of T, not the size of
\* the pointer, before NEW: a pointer to an array of two integers gets two
\* Datums, and what is stored in the second is not changed through another
\* pointer
C26_NewPushesBaseSize ==
    /\ \A b \in blts :
         (b.f = "NEW" /\ b.arg.tclass = "Pointer") =>
            /\ At(code, b.at).op = "NEW"
            /\ At(code, b.at - 1) = Instr("PUSH", 0, I(baseOf(b.arg).size))
    /\ (IsSource(ProgNewArray) /\ phase = "exit" /\ cmdOk) =>
            (result = "success" /\ global(2) = 7)


\* the place of the first field of that name
fieldPlace(fields, name) ==
    CHOOSE n \in 1..Len(fields) :
        fields[n].name = name /\ \A m \in 1..(n - 1) : fields[m].name # name

\* C27: for a selector r.f of a record, f one of its fields, the offset is
\* the sum of the sizes of the fields before f, `PUSH offset; ADD` is emitted
\* exactly when that sum is more than 0, and the type of the reference is the
\* type of f; r.a := 1; r.c := 3; r.b[1] := 2; x := r.c + r.a stores each
\* value in its field
C27_FieldOffset ==
    /\ \A s \in sels :
         (s.rtype.tclass = "Record" /\ s.found) =>
            With(fieldPlace(s.rtype.fields, s.selector), LAMBDA n :
            /\ s.offset = sizeSum(s.rtype.fields, n - 1)
            /\ s.type = s.rtype.fields[n].type
            /\ ~s.err
            /\ IF s.offset > 0
               THEN /\ s.at = s.from + 2
                    /\ At(code, s.from) = Instr("PUSH", 0, I(s.offset))
                    /\ At(code, s.from + 1).op = "ADD"
               ELSE s.at = s.from)
    /\ (IsSource(ProgRecord) /\ phase = "exit" /\ cmdOk) =>
            /\ result = "success"
            /\ global(0) = 1 /\ global(2) = 2 /\ global(3) = 3 /\ global(4) = 4

\* the field after an array of two Datums has been selected, at offset 3,
\* and the program has been run
C27_Witness ==
    /\ IsSource(ProgRecord) /\ Ran
    /\ \E s \in sels : s.found /\ s.selector = "c" /\ s.offset = 3
    /\ \E s \in sels : s.found /\ s.selector = "a" /\ s.offset = 0

\* C28: a selector r.f of a record that has no field f is reported as an
\* error of compilation, and no offset that reaches beyond the fields of the
\* record is emitted for it
C28_UnknownField ==
    \A s \in sels :
        (s.rtype.tclass = "Record" /\ ~s.found) =>
            /\ s.err
            /\ s.at > s.from => s.offset < s.rtype.size


\* C29: every sub-range type built has integer bounds with minimum <=
\* maximum: bounds a..b with a > b are reported, a bound that is not an
\* integer is reported, in every combination of the two faults, and the
\* bounds of the type built are integers with minimum <= maximum
C29_SubRanges ==
    \A r \in rngs :
        /\ r.inverted => r.reportedInverted
        /\ ~r.integral => r.reportedKind
        /\ r.min.kind = "Integer" /\ r.max.kind = "Integer"
        /\ r.type.range.min <= r.type.range.max


\* the type of the latest entry of that name
typeNamed(name) ==
    symtbl[CHOOSE i \in equal_range(symtbl, name) :
              \A j \in equal_range(symtbl, name) : j <= i].val.type

\* C30: the size of every array type built is the size of its elements times
\* the span of its index range; for array [t1, ..., tk] of T a descriptor is
\* built for every declaration, of the size of T times the product of the
\* spans of t1..tk: 12 for array [1..2, 0..2, 0..1] of integer and 6 for
\* array [1..2, 0..2] of integer
C30_ArraySize ==
    /\ \A i \in 1..Len(symtbl) :
         symtbl[i].val.type.tclass = "Array" =>
            symtbl[i].val.type.size
                = baseOf(symtbl[i].val.type).size * span(symtbl[i].val.type.range)
    /\ IsSource(ProgMatrix) =>
            /\ phase # "crash"
            /\ equal_range(symtbl, "b") # {} => typeNamed("b").size = 12
            /\ equal_range(symtbl, "a") # {} => typeNamed("a").size = 6

=============================================================================
